---- MODULE Spec2Model ----
(***************************************************************************)
(* Payment / subscription state-transition pipeline of Django_drf_news.    *)
(*                                                                         *)
(* The ledger (Payment, Subscription, SubscriptionHistory, Refund,         *)
(* WebhookEvent rows) is the variable db.  Every HTTP handler of           *)
(* apps/payment/views.py is a request held by a worker: a handler that     *)
(* commits more than once (cancel_payment, retry_payment, create_refund,   *)
(* payment_status) is one action per commit point, so that the states      *)
(* between its commits are states of the model.  The save hooks of         *)
(* apps/payment/signals.py and apps/subscribe/signals.py run inside every  *)
(* save.  apps/payment/services.py and the models are not part of the      *)
(* sources at hand: PaymentService, WebhookService, StripeService and the  *)
(* model properties follow the written specification (sections 4.1-4.4).   *)
(***************************************************************************)
EXTENDS Integers, Sequences, FiniteSets, TLC

\* ------------------------------------------------------------- bounds
\* The last day the clock reaches.
MaxTime == 91
\* The most Refund rows a payment gets.
MaxRefunds == 2
\* The most steps a behaviour starts: requests, runs of a job and advances
\* of the clock.
MaxRequests == 4
\* The failed WebhookEvent rows of earlier deliveries that the ledger of
\* the periodic specification starts with.
MaxBacklog == 50

\* ---------------------------------------------------------- constants
\* tasks.py: the retry job looks 24 hours back (the clock counts days) and
\* takes at most 50 events a run.
RetryWindow == 1
RetryBatch == 50
\* tasks.py: the cleanup jobs delete payments older than 90 days and
\* webhook events older than 30 days.
PaymentRetention == 90
WebhookRetention == 30

\* ------------------------------------------------------------ universe
PaymentIds == {"p1", "p2"}
Users == {"u1", "u2"}
Workers == {"w1", "w2"}
EventIds == {"e1", "e2", "e3"}

\* The provider's events: e1 reports a completed checkout session, e2 a
\* failed payment, e3 is of a type the processor does not know.
EventType(e) ==
  CASE e = "e1" -> "checkout.session.completed"
    [] e = "e2" -> "payment_intent.payment_failed"
    [] OTHER -> "customer.updated"

\* The payment an event's session id resolves to.
EventPayment(e) == "p1"

\* The SubscriptionPlan table: reference data, two plans on sale and one
\* withdrawn.
Plans ==
  {[price |-> 1, duration_days |-> 1, is_active |-> TRUE],
   [price |-> 2, duration_days |-> 2, is_active |-> TRUE],
   [price |-> 2, duration_days |-> 1, is_active |-> FALSE]}

\* The Post table: reference data of the post collaborator.
Posts ==
  {[id |-> 1, author |-> "u1", status |-> "published"],
   [id |-> 2, author |-> "u1", status |-> "published"],
   [id |-> 3, author |-> "u1", status |-> "draft"],
   [id |-> 4, author |-> "u2", status |-> "published"]}

\* The users who buy a subscription; the other user has none.
Buyers == {"u1"}

\* The amounts an admin asks to refund: up to one more than a plan's price.
RefundAmounts == UNION {1..(plan.price + 1) : plan \in Plans}

PaymentStatuses == {"pending", "processing", "succeeded", "failed", "cancelled"}

NoPayment == [status |-> "none", session |-> FALSE, amount |-> 0, user |-> "u1",
              created_at |-> 0]
NoSubscription == [status |-> "none", start_date |-> 0, end_date |-> 0, duration_days |-> 0,
                   user |-> "u1"]

\* The days at which the clock is read: the first days, which decide the
\* window of the retry job, and the days past the retention of payments.
Instants == {t \in 0..MaxTime : t <= 2 * RetryWindow \/ t > PaymentRetention}

\* A WebhookEvent by its external_event_id: rows counts the rows that carry
\* the id.
NoEvent == [status |-> "none", created_at |-> 0, rows |-> 0]

\* A worker with no request in hand.  A request in flight holds what its
\* handler has read: the Payment instance (pid, snap), the Subscription
\* instance cached on it (sub), the primary key of the PinnedPost it
\* inserted (pin), the batch of the retry job (events, and crowd, the
\* number of backlog events in it), the rows a cleanup collected (rows),
\* the event in hand (event) and whether the lookup found its row (found).
Idle == [op |-> "idle", pc |-> "idle", pid |-> "p1", snap |-> NoPayment,
         sub |-> NoSubscription, amount |-> 0, pin |-> 0, events |-> {}, crowd |-> 0,
         rows |-> {}, event |-> "none", found |-> FALSE, note |-> "none"]

VARIABLES db, now, req, resp, started, mode
vars == <<db, now, req, resp, started, mode>>

\* ------------------------------------------------------ model properties
\* Payment.is_pending
is_pending(row) == row.status = "pending"

\* Payment.is_successful
is_successful(row) == row.status = "succeeded"

RECURSIVE SumSucceeded(_)
SumSucceeded(rs) ==
  IF rs = <<>> THEN 0
  ELSE (IF Head(rs).status = "succeeded" THEN Head(rs).amount ELSE 0) + SumSucceeded(Tail(rs))

\* Sum of the succeeded refunds of a payment.
refunded_amount(d, p) == SumSucceeded(d.refunds[p])

\* Payment.can_be_refunded: succeeded and not already fully refunded.
can_be_refunded(d, row, p) ==
  /\ row.status = "succeeded"
  /\ refunded_amount(d, p) < row.amount

\* Subscription.is_active
is_active(s) == s.status = "active"

\* user.subscription, the reverse side of the one-to-one link the sources
\* test with hasattr(user, "subscription"): the keys of the subscription
\* rows that belong to user u (none or one).
user_subscription(d, u) ==
  {p \in PaymentIds : d.sub[p].status # "none" /\ d.sub[p].user = u}

\* The subscription user.subscription returns, for a user who has one.
subscription_of(d, u) == CHOOSE p \in user_subscription(d, u) : TRUE

\* user.pinned_post, the reverse side of the one-to-one link the sources
\* test with hasattr(user, "pinned_post"): the PinnedPost rows of user u.
pinned_post(d, u) == {row \in d.pins : row.user = u}

\* The primary key the next Payment row gets.
NextPaymentId(d) == IF d.payment["p1"].status = "none" THEN "p1" ELSE "p2"

\* The _previous_status attribute of a Subscription instance: the sources
\* hold no pre_save receiver for Subscription, so the attribute is absent.
subscription_previous_status(d, p) == "unset"

\* ---------------------------------------------------------- save hooks
\* Variant of subscription_post_save that does not look for the
\* _previous_status attribute and logs every save of an existing row.
subscription_post_save_always(d, p, created, prev) ==
  IF created
  THEN [d EXCEPT !.hist[p] = Append(@, "created")]
  ELSE [d EXCEPT !.hist[p] = Append(@, d.sub[p].status)]

\* subscribe/signals.py subscription_post_save: the history row a save adds.
subscription_post_save(d, p, created, prev) ==
  IF created
  THEN [d EXCEPT !.hist[p] = Append(@, "created")]
  ELSE IF prev # "unset" /\ prev # d.sub[p].status
       THEN [d EXCEPT !.hist[p] = Append(@, d.sub[p].status)]
       ELSE d

\* subscribe/signals.py pinned_post_pre_delete: the history row a deletion
\* of a PinnedPost of user u adds.
pinned_post_pre_delete(d, u) ==
  IF user_subscription(d, u) # {}
  THEN [d EXCEPT !.hist[subscription_of(d, u)] = Append(@, "post_unpinned")]
  ELSE d

\* PinnedPost.delete(): the pre_delete receiver runs, then the row of the
\* instance's primary key goes.
pinned_post_delete(d, row) ==
  LET d1 == pinned_post_pre_delete(d, row.user)
  IN [d1 EXCEPT !.pins = {r \in @ : r.id # row.id}]

\* Variant of pinned_post_post_save without the guard: the row stays
\* whatever the subscription of its user.
pinned_post_post_save_unguarded(d, row, created) ==
  IF created /\ user_subscription(d, row.user) # {}
  THEN [d EXCEPT !.hist[subscription_of(d, row.user)] = Append(@, "post_pinned")]
  ELSE d

\* subscribe/signals.py pinned_post_post_save: d holds the row just
\* inserted; a row of a user without an active subscription is deleted.
pinned_post_post_save(d, row, created) ==
  IF created
  THEN IF \/ user_subscription(d, row.user) = {}
          \/ ~is_active(d.sub[subscription_of(d, row.user)])
       THEN pinned_post_delete(d, row)
       ELSE [d EXCEPT !.hist[subscription_of(d, row.user)] = Append(@, "post_pinned")]
  ELSE d

\* Subscription.save(): the row is written, then the post_save receiver runs.
subscription_save(d, p, row, created) ==
  LET prev == subscription_previous_status(d, p)
      written == [d EXCEPT !.sub[p] = row]
  IN subscription_post_save(written, p, created, prev)

\* Variant of payment_pre_save that records the status once, when the
\* instance is first saved, and keeps it: for a row that exists, the status
\* it was created with.
payment_pre_save_stale(d, p, created) ==
  IF created THEN "unset"
  ELSE IF d.payment[p].status = "none" THEN "absent" ELSE "pending"

\* payment/signals.py payment_pre_save: the status the row has in the
\* database before the save, "unset" when the instance has no pk yet.
payment_pre_save(d, p, created) ==
  IF created THEN "unset"
  ELSE IF d.payment[p].status = "none" THEN "absent" ELSE d.payment[p].status

\* The Payment instance as Payment.save() leaves it in the hands of the
\* caller: when the row of the instance is gone the save is an INSERT,
\* which stamps created_at (auto_now_add) on the instance it writes.
payment_saved(d, p, inst, created, t) ==
  IF ~created /\ d.payment[p].status = "none" THEN [inst EXCEPT !.created_at = t] ELSE inst

RECURSIVE payment_save(_, _, _, _, _)
RECURSIVE payment_post_save(_, _, _, _, _)
RECURSIVE process_successful_payment(_, _, _)
RECURSIVE process_failed_payment(_, _, _)

\* payment/signals.py payment_post_save: d holds the row just written.
payment_post_save(d, p, created, prev, t) ==
  IF ~created /\ prev # "unset"
  THEN IF prev \in {"pending", "processing"} /\ d.payment[p].status = "succeeded"
       THEN process_successful_payment(d, p, t)
       ELSE IF prev \in {"pending", "processing"} /\ d.payment[p].status = "failed"
            THEN process_failed_payment(d, p, t)
            ELSE d
  ELSE d

\* Payment.save(): pre_save receiver, the write of every field of the
\* instance, post_save receiver.  When the row of the instance is gone the
\* UPDATE matches nothing and the row is inserted again: created_at is
\* stamped with the time of the INSERT and post_save is sent as for a
\* created row.
payment_save(d, p, inst, created, t) ==
  LET prev == payment_pre_save(d, p, created)
      gone == ~created /\ d.payment[p].status = "none"
      written == [d EXCEPT !.payment[p] = payment_saved(d, p, inst, created, t)]
  IN payment_post_save(written, p, created \/ gone, prev, t)

\* ------------------------------------------------------ Payment Service
\* Variant of process_successful_payment without the state-machine check.
process_successful_payment_unguarded(d, p, t) ==
  LET d1 == payment_save(d, p, [d.payment[p] EXCEPT !.status = "succeeded"], FALSE, t)
  IN IF d1.sub[p].status = "none" THEN d1
     ELSE LET s == [d1.sub[p] EXCEPT !.status = "active",
                                     !.start_date = t,
                                     !.end_date = t + d1.sub[p].duration_days]
              d3 == subscription_save(d1, p, s, FALSE)
          IN [d3 EXCEPT !.hist[p] = Append(@, "activated")]

\* PaymentService.process_successful_payment (specification 4.1, 4.2): one
\* atomic transaction; a payment that is not pending or processing is left
\* as it is.
process_successful_payment(d, p, t) ==
  IF d.payment[p].status \notin {"pending", "processing"}
  THEN d
  ELSE LET d1 == payment_save(d, p, [d.payment[p] EXCEPT !.status = "succeeded"], FALSE, t)
           d2 == IF d1.sub[p].status = "none" THEN d1
                 ELSE LET s == [d1.sub[p] EXCEPT !.status = "active",
                                                 !.start_date = t,
                                                 !.end_date = t + d1.sub[p].duration_days]
                          d3 == subscription_save(d1, p, s, FALSE)
                      IN [d3 EXCEPT !.hist[p] = Append(@, "activated")]
       IN d2

\* PaymentService.process_failed_payment (specification 4.1): the payment
\* becomes failed, a subscription that is still pending becomes cancelled.
process_failed_payment(d, p, t) ==
  IF d.payment[p].status \notin {"pending", "processing"}
  THEN d
  ELSE LET d1 == payment_save(d, p, [d.payment[p] EXCEPT !.status = "failed"], FALSE, t)
       IN IF d1.sub[p].status = "pending"
          THEN subscription_save(d1, p, [d1.sub[p] EXCEPT !.status = "cancelled"], FALSE)
          ELSE d1

\* Variant of create_subscription_payment that creates the Payment alone.
create_subscription_payment_alone(d, u, plan, p, t) ==
  payment_save(d, p, [status |-> "pending", session |-> FALSE, amount |-> plan.price,
                      user |-> u, created_at |-> t], TRUE, t)

\* PaymentService.create_subscription_payment (specification 4.1): a pending
\* Subscription with placeholder dates and a pending Payment of the plan's
\* price, linked together.
create_subscription_payment(d, u, plan, p, t) ==
  LET s == [status |-> "pending", start_date |-> t, end_date |-> t,
            duration_days |-> plan.duration_days, user |-> u]
      d1 == subscription_save(d, p, s, TRUE)
      row == [status |-> "pending", session |-> FALSE, amount |-> plan.price, user |-> u,
              created_at |-> t]
  IN payment_save(d1, p, row, TRUE, t)

\* Every PinnedPost row of user u is deleted.
RECURSIVE delete_pinned_posts(_, _)
delete_pinned_posts(d, u) ==
  IF pinned_post(d, u) = {} THEN d
  ELSE delete_pinned_posts(pinned_post_delete(d, CHOOSE row \in pinned_post(d, u) : TRUE), u)

\* Variant of Subscription.cancel() that also writes a history row.
subscription_cancel_logged(d, p, inst) ==
  LET d1 == subscription_save(d, p, [inst EXCEPT !.status = "cancelled"], FALSE)
  IN [d1 EXCEPT !.hist[p] = Append(@, "cancelled")]

\* PaymentService.cancel_subscription (specification 4.1): the subscription
\* becomes cancelled, the PinnedPost of its user is deleted and a history
\* row is written.
cancel_subscription(d, p) ==
  LET d1 == subscription_save(d, p, [d.sub[p] EXCEPT !.status = "cancelled"], FALSE)
      d2 == delete_pinned_posts(d1, d1.sub[p].user)
  IN [d2 EXCEPT !.hist[p] = Append(@, "cancelled")]

\* Subscription.cancel(), the model method cancel_payment calls on the
\* Subscription instance inst it holds: the status is set on the instance
\* and the instance saved, every field of it.
subscription_cancel(d, p, inst) ==
  subscription_save(d, p, [inst EXCEPT !.status = "cancelled"], FALSE)

\* Refund.process_refund(): the refund row becomes succeeded.
process_refund(d, p, i) == [d EXCEPT !.refunds[p][i].status = "succeeded"]

\* ----------------------------------------------------- Provider Gateway
\* A PaymentAttempt row of payment p is inserted (specification 3, 5: one
\* row for each attempt to reach the provider, whatever its outcome); it
\* refers to the payment, whose row has to be there.
payment_attempt(d, p) ==
  IF d.payment[p].status = "none" THEN d ELSE [d EXCEPT !.attempts[p] = @ + 1]

\* StripeService.create_checkout_session, the case of a session returned:
\* the session id is stored on the instance, the instance saved and the
\* attempt recorded.
stripe_create_checkout_session(d, p, inst, t) ==
  payment_attempt(payment_save(d, p, [inst EXCEPT !.session = TRUE], FALSE, t), p)

\* --------------------------------------------------- Webhook Processor
\* Variant of webhook_event_is_processed that never reports a duplicate.
webhook_event_is_processed_never(d, e) == FALSE

\* WebhookService.process_stripe_webhook, step 1 (specification 4.3): the
\* WebhookEvent of the id is looked up; one that is processed makes the
\* delivery a duplicate.
webhook_event_is_processed(d, e) == d.events[e].status = "processed"

\* Step 2: a delivery whose lookup found no row inserts one, pending.  The
\* row found by the lookup is written through its instance, whose save
\* inserts it again when the row has been deleted since.
webhook_event_insert(d, e, found, t) ==
  IF found /\ d.events[e].rows > 0
  THEN d
  ELSE [d EXCEPT !.events[e] = [status |-> "pending",
                                created_at |-> IF @.rows = 0 THEN t ELSE @.created_at,
                                rows |-> @.rows + 1]]

\* Variant of process_stripe_webhook that treats an event of a type it does
\* not know as a failed dispatch.
process_stripe_webhook_strict(d, e, found, t) ==
  LET d0 == webhook_event_insert(d, e, found, t)
      p == EventPayment(e)
      resolved == d0.payment[p].status # "none" /\ d0.payment[p].session
  IN CASE EventType(e) = "checkout.session.completed" /\ resolved ->
            <<[process_successful_payment(d0, p, t) EXCEPT !.events[e].status = "processed"], TRUE>>
       [] EventType(e) = "payment_intent.payment_failed" /\ resolved ->
            <<[process_failed_payment(d0, p, t) EXCEPT !.events[e].status = "processed"], TRUE>>
       [] OTHER -> <<[d0 EXCEPT !.events[e].status = "failed"], FALSE>>

\* WebhookService.process_stripe_webhook, steps 2 to 4 (specification 4.3),
\* for a delivery of event e that is past the lookup, which found a row of
\* the event or none: the row is inserted, the event dispatched to the
\* transition of its type and the row marked, in one commit:
\* <<ledger, success>>.
process_stripe_webhook(d, e, found, t) ==
  LET d0 == webhook_event_insert(d, e, found, t)
      p == EventPayment(e)
      resolved == d0.payment[p].status # "none" /\ d0.payment[p].session
  IN CASE EventType(e) = "checkout.session.completed" ->
            IF resolved
            THEN <<[process_successful_payment(d0, p, t) EXCEPT !.events[e].status = "processed"], TRUE>>
            ELSE <<[d0 EXCEPT !.events[e].status = "failed"], FALSE>>
       [] EventType(e) = "payment_intent.payment_failed" ->
            IF resolved
            THEN <<[process_failed_payment(d0, p, t) EXCEPT !.events[e].status = "processed"], TRUE>>
            ELSE <<[d0 EXCEPT !.events[e].status = "failed"], FALSE>>
       [] OTHER -> <<[d0 EXCEPT !.events[e].status = "ignored"], TRUE>>

\* ------------------------------------------------------------ requests
\* The requests of the specification overlap.
Concurrent == mode \in {"conc", "race"}

\* The events the provider sends: all of them where the requests run one
\* after another, one of each transition in the concurrent specification,
\* the success event in the specification of the refund race.
Deliverable ==
  IF ~Concurrent THEN EventIds
  ELSE IF mode = "conc" THEN {"e1", "e2"} ELSE {"e1"}

\* The days the clock advances to: in the specification of the refund race
\* only those past the retention of payments.
Clock == IF mode = "race" THEN {t \in Instants : t > PaymentRetention} ELSE Instants

\* The users who send requests, the plans they ask for and the posts they
\* ask to pin: all of them in the sequential specification; in the other
\* two the buyers, one plan on sale and one published post of a buyer.
Callers == IF mode = "seq" THEN Users ELSE Buyers
Offered ==
  IF mode = "seq" THEN Plans
  ELSE {plan \in Plans : plan.is_active /\ plan.price = 1}
Pinnable ==
  IF mode = "seq" THEN Posts
  ELSE {post \in Posts : post.author \in Buyers /\ post.status = "published" /\ post.id = 1}

\* The amounts asked to be refunded and the outcomes of the signature
\* check of a delivery: all of them in the sequential specification; in
\* the other two the amounts up to a plan's price and verified deliveries.
Refundable ==
  IF mode = "seq" THEN RefundAmounts
  ELSE {a \in RefundAmounts : \E plan \in Offered : a <= plan.price}
Signatures == IF mode = "seq" THEN BOOLEAN ELSE {TRUE}

\* A worker may take a request when it is idle; in the sequential
\* specification a request starts only when no other is in flight.  The
\* second worker is used only while the first is busy.
WorkerFree(w) ==
  /\ req[w] = Idle
  /\ ~Concurrent => \A v \in Workers : req[v] = Idle
  /\ w = "w2" => req["w1"] # Idle

\* Worker w may take one more of the bounded number of requests.
CanStart(w) ==
  /\ WorkerFree(w)
  /\ started < MaxRequests

\* Worker w takes a request, one more of those the run may start.
Start(w) ==
  /\ CanStart(w)
  /\ started' = started + 1

\* The scheduler starts the retry job on worker w.  Where the schedule is
\* modelled as running for ever (mode "periodic") a run of the job is not
\* one of the bounded number of steps; elsewhere it is a request like any
\* other.
StartJob(w) ==
  IF mode = "periodic"
  THEN /\ \A v \in Workers : req[v] = Idle
       /\ w = "w1"
       /\ UNCHANGED started
  ELSE Start(w)

\* Worker w takes a create_checkout_session request.  In the specification
\* of the refund race the checkout of a ledger that holds no payment and no
\* subscription yet opens the payment the other requests race for, and is
\* not one of the bounded number of steps; elsewhere it is a request like
\* any other.
StartCheckout(w, d) ==
  IF mode = "race" /\ \A p \in PaymentIds : d.payment[p].status = "none" /\ d.sub[p].status = "none"
  THEN WorkerFree(w) /\ UNCHANGED started
  ELSE Start(w)

\* What a request for a transition met: the ledger took it ("applied") or
\* the payment was not pending or processing ("rejected").
TransitionNote(kind, row) ==
  IF row.status \in {"pending", "processing"}
  THEN IF kind = "success" THEN "success_applied" ELSE "failure_applied"
  ELSE IF kind = "success" THEN "success_rejected" ELSE "failure_rejected"

\* What a verified delivery of event e met.
WebhookNote(d, e) ==
  LET p == EventPayment(e)
  IN IF d.events[e].status = "processed" THEN "dedup"
     ELSE IF d.payment[p].status = "none" \/ ~d.payment[p].session THEN "none"
     ELSE CASE EventType(e) = "checkout.session.completed" -> TransitionNote("success", d.payment[p])
            [] EventType(e) = "payment_intent.payment_failed" -> TransitionNote("failure", d.payment[p])
            [] OTHER -> "none"

\* What a lookup by id and owner met: a row of another user ("not_owner")
\* or anything else ("none").
OwnerNote(row, u) ==
  IF row.status # "none" /\ row.user # u THEN "not_owner" ELSE "none"

\* The handler of worker w returns: the view, the status code of its
\* response, and what it met ("none", "dedup", "dedup_waited", "not_owner",
\* or the transition asked for and whether the ledger took it).
Done(w, op, code, note) ==
  /\ req' = [req EXCEPT ![w] = Idle]
  /\ resp' = [op |-> op, code |-> code, note |-> note]

\* The handler of worker w moves on to its next commit point.
Goto(w, r) ==
  /\ req' = [req EXCEPT ![w] = r]
  /\ UNCHANGED resp

\* Refund requests past validation and not yet committed.
RefundsInFlight(p) == Cardinality({w \in Workers : req[w].op = "create_refund" /\ req[w].pid = p})

\* PaymentCreateSerializer.is_valid (specification 4.1, 7): a user who holds
\* an active subscription is refused.
payment_create_is_valid(d, u) ==
  \A p \in user_subscription(d, u) : ~is_active(d.sub[p])

\* Subscription.objects.create under the one-to-one link to the user: a
\* second row for the same user raises IntegrityError.
subscription_user_is_unique(d, u) == user_subscription(d, u) = {}

\* The plan a request in flight was made for, kept as its price and its
\* duration.
PlanOf(r) ==
  CHOOSE plan \in Plans : plan.price = r.snap.amount /\ plan.duration_days = r.amount

\* A request in flight of view op by user u for a plan.
PlanRequest(op, pc, u, plan) ==
  [Idle EXCEPT !.op = op, !.pc = pc,
               !.snap = [NoPayment EXCEPT !.user = u, !.amount = plan.price],
               !.amount = plan.duration_days]

\* Variant of create_checkout_session_load that does not validate the
\* request.
create_checkout_session_load_unchecked(w, u, plan) ==
  /\ StartCheckout(w, db)
  /\ plan \in Offered
  /\ db.payment[NextPaymentId(db)].status = "none"
  /\ Goto(w, PlanRequest("create_checkout_session", "valid", u, plan))
  /\ UNCHANGED <<db, now, mode>>

\* views.py create_checkout_session, lines 80-84: the request is validated
\* before the transaction starts; an invalid request is answered 400.
create_checkout_session_load(w, u, plan) ==
  /\ StartCheckout(w, db)
  /\ plan \in Offered
  /\ db.payment[NextPaymentId(db)].status = "none"
  /\ IF ~payment_create_is_valid(db, u)
     THEN Done(w, "create_checkout_session", 400, "none")
     ELSE Goto(w, PlanRequest("create_checkout_session", "valid", u, plan))
  /\ UNCHANGED <<db, now, mode>>

\* views.py create_checkout_session, lines 85-121: one transaction.atomic
\* block.  session is the gateway's answer: "ok", "none" (no session: the
\* 400 response is returned from inside the block, which commits) or
\* "raise" (rolled back).  An inactive plan (Http404 of line 88) and an
\* exception inside the block (the gateway's, or the IntegrityError of a
\* second subscription row for the user) all end in a 400 response with
\* nothing written.
create_checkout_session(w, session) ==
  /\ req[w].op = "create_checkout_session" /\ req[w].pc = "valid"
  /\ LET u == req[w].snap.user
         plan == PlanOf(req[w])
         p == NextPaymentId(db)
     IN IF \/ ~plan.is_active
           \/ ~subscription_user_is_unique(db, u)
           \/ session = "raise"
        THEN /\ UNCHANGED db
             /\ Done(w, "create_checkout_session", 400, "none")
        ELSE LET d1 == create_subscription_payment(db, u, plan, p, now)
             IN IF session = "ok"
                THEN /\ db' = stripe_create_checkout_session(d1, p, d1.payment[p], now)
                     /\ Done(w, "create_checkout_session", 201, "none")
                ELSE /\ db' = payment_attempt(d1, p)
                     /\ Done(w, "create_checkout_session", 400, "none")
  /\ UNCHANGED <<now, started, mode>>

\* The key the next Subscription row gets when it is created without a
\* payment.
NextSubscriptionId(d) ==
  IF d.sub["p1"].status = "none" /\ d.payment["p1"].status = "none" THEN "p1" ELSE "p2"

\* subscribe/serializers.py SubscriptionCreateSerializer, lines 85-101:
\* is_valid.  A plan that is not on sale is refused (400).  For a user who
\* has a subscription, line 96 calls the value of is_active: the TypeError
\* is no validation error and leaves the serializer (500).
subscription_create_load(w, u, plan) ==
  /\ Start(w)
  /\ plan \in Offered
  /\ db.sub[NextSubscriptionId(db)].status = "none"
  /\ IF ~plan.is_active
     THEN Done(w, "subscription_create", 400, "none")
     ELSE IF user_subscription(db, u) # {}
          THEN Done(w, "subscription_create", 500, "none")
          ELSE Goto(w, PlanRequest("subscription_create", "valid", u, plan))
  /\ UNCHANGED <<db, now, mode>>

\* subscribe/serializers.py SubscriptionCreateSerializer.create, lines
\* 103-109: the INSERT of a pending Subscription of the user, start and end
\* at the present time, with no Payment; a second row for the user raises
\* IntegrityError (500).
subscription_create_insert(w) ==
  /\ req[w].op = "subscription_create" /\ req[w].pc = "valid"
  /\ LET u == req[w].snap.user
         plan == PlanOf(req[w])
         p == NextSubscriptionId(db)
     IN IF ~subscription_user_is_unique(db, u)
        THEN /\ UNCHANGED db
             /\ Done(w, "subscription_create", 500, "none")
        ELSE /\ db' = [db EXCEPT !.sub[p] = [status |-> "pending", start_date |-> now,
                                              end_date |-> now,
                                              duration_days |-> plan.duration_days,
                                              user |-> u]]
             /\ Goto(w, [req[w] EXCEPT !.pc = "inserted", !.pid = p])
  /\ UNCHANGED <<now, started, mode>>

\* subscribe/signals.py subscription_post_save, run for the row the
\* request has inserted: the history row "created"; then the serializer
\* returns (201).
subscription_create(w) ==
  /\ req[w].op = "subscription_create" /\ req[w].pc = "inserted"
  /\ db' = subscription_post_save(db, req[w].pid, TRUE, "unset")
  /\ Done(w, "subscription_create", 201, "none")
  /\ UNCHANGED <<now, started, mode>>

\* views.py payment_status, line 136: the payment is read; a payment that
\* needs no reconciliation is answered at once.
payment_status_load(w, u, p) ==
  /\ Start(w)
  /\ u \in Callers
  /\ LET row == db.payment[p]
     IN IF row.status = "none" \/ row.user # u
        THEN Done(w, "payment_status", 404, OwnerNote(row, u))
        ELSE IF row.session /\ row.status \in {"pending", "processing"}
             THEN Goto(w, [Idle EXCEPT !.op = "payment_status", !.pc = "loaded", !.pid = p, !.snap = row])
             ELSE Done(w, "payment_status", 200, "none")
  /\ UNCHANGED <<db, now, mode>>

\* Variant of payment_status that writes the outcome on the instance it
\* read and saves it, leaving the rest to the save hook.
payment_status_direct(w, info) ==
  /\ req[w].op = "payment_status" /\ req[w].pc = "loaded"
  /\ LET p == req[w].pid
     IN CASE info = "complete" ->
               /\ db' = payment_save(db, p, [req[w].snap EXCEPT !.status = "succeeded"], FALSE, now)
               /\ Done(w, "payment_status", 200, TransitionNote("success", db.payment[p]))
          [] info = "failed" ->
               /\ db' = payment_save(db, p, [req[w].snap EXCEPT !.status = "failed"], FALSE, now)
               /\ Done(w, "payment_status", 200, TransitionNote("failure", db.payment[p]))
          [] OTHER ->
               /\ UNCHANGED db
               /\ Done(w, "payment_status", 200, "none")
  /\ UNCHANGED <<now, started, mode>>

\* views.py payment_status, lines 140-160: the session is retrieved from the
\* provider and the matching transition applied.
payment_status(w, info) ==
  /\ req[w].op = "payment_status" /\ req[w].pc = "loaded"
  /\ LET p == req[w].pid
     IN CASE info = "complete" ->
               /\ db' = process_successful_payment(db, p, now)
               /\ Done(w, "payment_status", 200, TransitionNote("success", db.payment[p]))
          [] info = "failed" ->
               /\ db' = process_failed_payment(db, p, now)
               /\ Done(w, "payment_status", 200, TransitionNote("failure", db.payment[p]))
          [] OTHER ->
               /\ UNCHANGED db
               /\ Done(w, "payment_status", 200, "none")
  /\ UNCHANGED <<now, started, mode>>

\* Variant of cancel_payment_load without the is_pending check.
cancel_payment_load_unchecked(w, u, p) ==
  /\ Start(w)
  /\ u \in Callers
  /\ LET row == db.payment[p]
     IN IF row.status = "none" \/ row.user # u
        THEN Done(w, "cancel_payment", 404, OwnerNote(row, u))
        ELSE Goto(w, [Idle EXCEPT !.op = "cancel_payment", !.pc = "checked", !.pid = p, !.snap = row])
  /\ UNCHANGED <<db, now, mode>>

\* Variant of cancel_payment_load that looks the payment up by id alone,
\* whoever owns it.
cancel_payment_load_any_owner(w, u, p) ==
  /\ Start(w)
  /\ u \in Callers
  /\ LET row == db.payment[p]
     IN IF row.status = "none"
        THEN Done(w, "cancel_payment", 404, "none")
        ELSE IF ~is_pending(row)
             THEN Done(w, "cancel_payment", 400, "none")
             ELSE Goto(w, [Idle EXCEPT !.op = "cancel_payment", !.pc = "checked", !.pid = p, !.snap = row])
  /\ UNCHANGED <<db, now, mode>>

\* views.py cancel_payment, lines 178-184: the payment is read and checked.
cancel_payment_load(w, u, p) ==
  /\ Start(w)
  /\ u \in Callers
  /\ LET row == db.payment[p]
     IN IF row.status = "none" \/ row.user # u
        THEN Done(w, "cancel_payment", 404, OwnerNote(row, u))
        ELSE IF ~is_pending(row)
             THEN Done(w, "cancel_payment", 400, "none")
             ELSE Goto(w, [Idle EXCEPT !.op = "cancel_payment", !.pc = "checked", !.pid = p, !.snap = row])
  /\ UNCHANGED <<db, now, mode>>

\* views.py cancel_payment, lines 186-187: the instance read earlier is
\* saved with status cancelled.
cancel_payment_save(w) ==
  /\ req[w].op = "cancel_payment" /\ req[w].pc = "checked"
  /\ db' = payment_save(db, req[w].pid, [req[w].snap EXCEPT !.status = "cancelled"], FALSE, now)
  /\ Goto(w, [req[w] EXCEPT !.pc = "saved"])
  /\ UNCHANGED <<now, started, mode>>

\* views.py cancel_payment, line 190: payment.subscription reads the
\* linked Subscription row and keeps the instance on the payment; a
\* payment without a subscription is answered at once (193-198).
cancel_payment_subscription(w) ==
  /\ req[w].op = "cancel_payment" /\ req[w].pc = "saved"
  /\ LET p == req[w].pid
     IN IF db.sub[p].status = "none"
        THEN Done(w, "cancel_payment", 200, "none")
        ELSE Goto(w, [req[w] EXCEPT !.pc = "fetched", !.sub = db.sub[p]])
  /\ UNCHANGED <<db, now, started, mode>>

\* views.py cancel_payment, lines 191-198: cancel() is called on the
\* Subscription instance read at line 190, then the answer.
cancel_payment(w) ==
  /\ req[w].op = "cancel_payment" /\ req[w].pc = "fetched"
  /\ db' = subscription_cancel(db, req[w].pid, req[w].sub)
  /\ Done(w, "cancel_payment", 200, "none")
  /\ UNCHANGED <<now, started, mode>>

\* Variant of retry_payment_load that looks the payment up by id and owner
\* alone, whatever its status.
retry_payment_load_any(w, u, p) ==
  /\ Start(w)
  /\ u \in Callers
  /\ LET row == db.payment[p]
     IN IF row.status = "none" \/ row.user # u
        THEN Done(w, "retry_payment", 404, OwnerNote(row, u))
        ELSE Goto(w, [Idle EXCEPT !.op = "retry_payment", !.pc = "loaded", !.pid = p, !.snap = row])
  /\ UNCHANGED <<db, now, mode>>

\* views.py retry_payment, lines 230-232: only a failed payment of the
\* caller is found.
retry_payment_load(w, u, p) ==
  /\ Start(w)
  /\ u \in Callers
  /\ LET row == db.payment[p]
     IN IF row.status # "failed" \/ row.user # u
        THEN Done(w, "retry_payment", 404, OwnerNote(row, u))
        ELSE Goto(w, [Idle EXCEPT !.op = "retry_payment", !.pc = "loaded", !.pid = p, !.snap = row])
  /\ UNCHANGED <<db, now, mode>>

\* views.py retry_payment, lines 243-258: a new checkout session is asked of
\* the gateway, which stores it on the instance and saves the instance; the
\* request goes on with the instance as saved.
retry_payment_session(w, ok) ==
  /\ req[w].op = "retry_payment" /\ req[w].pc = "loaded"
  /\ LET p == req[w].pid
     IN IF ok
        THEN /\ db' = stripe_create_checkout_session(db, p, req[w].snap, now)
             /\ Goto(w, [req[w] EXCEPT !.pc = "session",
                                       !.snap = payment_saved(db, p, [@ EXCEPT !.session = TRUE],
                                                              FALSE, now)])
        ELSE /\ db' = payment_attempt(db, p)
             /\ Done(w, "retry_payment", 400, "none")
  /\ UNCHANGED <<now, started, mode>>

\* views.py retry_payment, lines 249-253: the instance is saved as processing.
retry_payment(w) ==
  /\ req[w].op = "retry_payment" /\ req[w].pc = "session"
  /\ LET p == req[w].pid
     IN /\ db' = payment_save(db, p, [req[w].snap EXCEPT !.status = "processing"], FALSE, now)
        /\ Done(w, "retry_payment", 200, "none")
  /\ UNCHANGED <<now, started, mode>>

\* RefundCreateSerializer.is_valid (specification 4.4): a positive amount
\* not above the remaining refundable amount.
refund_is_valid(d, p, amount) ==
  /\ amount > 0
  /\ amount <= d.payment[p].amount - refunded_amount(d, p)

\* Refund.payment, the foreign key of a Refund to its Payment
\* (specification 3: a Refund belongs to one Payment): a Refund row can be
\* inserted only while the Payment row is there.
refund_payment_exists(d, p) == d.payment[p].status # "none"

\* Variant of create_refund_load that checks neither refundability nor
\* the amount.
create_refund_load_unchecked(w, p, amount) ==
  /\ Start(w)
  /\ amount \in Refundable
  /\ Len(db.refunds[p]) + RefundsInFlight(p) < MaxRefunds
  /\ LET row == db.payment[p]
     IN IF row.status = "none"
        THEN Done(w, "create_refund", 404, "none")
        ELSE Goto(w, [Idle EXCEPT !.op = "create_refund", !.pc = "valid", !.pid = p, !.snap = row, !.amount = amount])
  /\ UNCHANGED <<db, now, mode>>

\* views.py create_refund, lines 316-328: the payment is read, checked for
\* refundability and the request validated, before the atomic block.
create_refund_load(w, p, amount) ==
  /\ Start(w)
  /\ amount \in Refundable
  /\ Len(db.refunds[p]) + RefundsInFlight(p) < MaxRefunds
  /\ LET row == db.payment[p]
     IN IF row.status = "none"
        THEN Done(w, "create_refund", 404, "none")
        ELSE IF ~can_be_refunded(db, row, p) \/ ~refund_is_valid(db, p, amount)
             THEN Done(w, "create_refund", 400, "none")
             ELSE Goto(w, [Idle EXCEPT !.op = "create_refund", !.pc = "valid", !.pid = p, !.snap = row, !.amount = amount])
  /\ UNCHANGED <<db, now, mode>>

\* Variant of create_refund in which a full refund leaves the subscription
\* alone.
create_refund_no_cascade(w, ok) ==
  /\ req[w].op = "create_refund" /\ req[w].pc = "valid"
  /\ LET p == req[w].pid
         d1 == [db EXCEPT !.refunds[p] = Append(@, [amount |-> req[w].amount, status |-> "pending"])]
         i == Len(d1.refunds[p])
     IN IF ~refund_payment_exists(db, p)
        THEN /\ UNCHANGED db
             /\ Done(w, "create_refund", 500, "none")
        ELSE IF ok
        THEN /\ db' = process_refund(d1, p, i)
             /\ Done(w, "create_refund", 201, "none")
        ELSE /\ db' = [d1 EXCEPT !.refunds[p][i].status = "failed"]
             /\ Done(w, "create_refund", 400, "none")
  /\ UNCHANGED <<now, started, mode>>

\* Variant of create_refund in which the gateway's refusal rolls the block
\* back, so that the Refund row is lost.
create_refund_rollback(w, ok) ==
  /\ req[w].op = "create_refund" /\ req[w].pc = "valid"
  /\ LET p == req[w].pid
         d1 == [db EXCEPT !.refunds[p] = Append(@, [amount |-> req[w].amount, status |-> "pending"])]
         i == Len(d1.refunds[p])
     IN IF ~refund_payment_exists(db, p)
        THEN /\ UNCHANGED db
             /\ Done(w, "create_refund", 500, "none")
        ELSE IF ok
        THEN /\ db' = IF req[w].amount = req[w].snap.amount /\ d1.sub[p].status # "none"
                       THEN cancel_subscription(process_refund(d1, p, i), p)
                       ELSE process_refund(d1, p, i)
             /\ Done(w, "create_refund", 201, "none")
        ELSE /\ UNCHANGED db
             /\ Done(w, "create_refund", 400, "none")
  /\ UNCHANGED <<now, started, mode>>

\* views.py create_refund, lines 329-355: the atomic block.  ok is the
\* gateway's answer to refund_payment.  When the payment row read at line
\* 316 has been deleted since, the Refund of line 331 refers to no Payment:
\* the foreign key fails, the block is rolled back whatever the gateway
\* answered, and the IntegrityError, which the except of line 359 does not
\* catch, is answered 500.
create_refund(w, ok) ==
  /\ req[w].op = "create_refund" /\ req[w].pc = "valid"
  /\ LET p == req[w].pid
         amount == req[w].amount
         d1 == [db EXCEPT !.refunds[p] = Append(@, [amount |-> amount, status |-> "pending"])]
         i == Len(d1.refunds[p])
     IN IF ~refund_payment_exists(db, p)
        THEN /\ UNCHANGED db
             /\ Done(w, "create_refund", 500, "none")
        ELSE IF ok
        THEN LET d2 == process_refund(d1, p, i)
                 d3 == IF amount = req[w].snap.amount /\ d2.sub[p].status # "none"
                       THEN cancel_subscription(d2, p)
                       ELSE d2
             IN /\ db' = d3
                /\ Done(w, "create_refund", 201, "none")
        ELSE /\ db' = [d1 EXCEPT !.refunds[p][i].status = "failed"]
             /\ Done(w, "create_refund", 400, "none")
  /\ UNCHANGED <<now, started, mode>>

\* Variant of webhook_event_locked without the guard: no delivery is ever
\* held back.
webhook_event_locked_never(e) == FALSE

\* The guard of the check-then-process sequence (specification 5: a
\* row-level lock, or the unique constraint on external_event_id): event e
\* is held by a delivery that is past the lookup and has not committed.
webhook_event_locked(e) ==
  \E w \in Workers : req[w].pc = "locked" /\ req[w].event = e

\* Variant of stripe_webhook_load that hands the event to the Webhook
\* Processor before the signature is checked.
stripe_webhook_load_unverified(w, e, verified) ==
  /\ Start(w)
  /\ e \in Deliverable /\ verified \in Signatures
  /\ IF webhook_event_locked(e)
     THEN Goto(w, [Idle EXCEPT !.op = "stripe_webhook", !.pc = "waiting", !.event = e])
     ELSE IF webhook_event_is_processed(db, e)
          THEN Done(w, "stripe_webhook", IF verified THEN 200 ELSE 400, "dedup")
          ELSE Goto(w, [Idle EXCEPT !.op = "stripe_webhook", !.pc = "locked", !.event = e,
                                    !.found = db.events[e].rows > 0])
  /\ UNCHANGED <<db, now, mode>>

\* views.py stripe_webhook, lines 377-395: the signature check, then the
\* Webhook Processor is entered, whose lookup of the event is guarded: a
\* delivery of an event that another delivery holds waits for it; a
\* duplicate is answered at once; any other delivery goes on holding the
\* event.
stripe_webhook_load(w, e, verified) ==
  /\ Start(w)
  /\ e \in Deliverable /\ verified \in Signatures
  /\ IF ~verified
     THEN Done(w, "stripe_webhook", 400, "none")
     ELSE IF webhook_event_locked(e)
          THEN Goto(w, [Idle EXCEPT !.op = "stripe_webhook", !.pc = "waiting", !.event = e])
          ELSE IF webhook_event_is_processed(db, e)
               THEN Done(w, "stripe_webhook", 200, "dedup")
               ELSE Goto(w, [Idle EXCEPT !.op = "stripe_webhook", !.pc = "locked",
                                         !.event = e, !.found = db.events[e].rows > 0])
  /\ UNCHANGED <<db, now, mode>>

\* Variant of stripe_webhook that acknowledges every verified delivery,
\* whatever the Webhook Processor returned.
stripe_webhook_acknowledging(w) ==
  /\ req[w].op = "stripe_webhook"
  /\ req[w].pc = "waiting" => ~webhook_event_locked(req[w].event)
  /\ LET e == req[w].event
         waited == req[w].pc = "waiting"
         found == IF waited THEN db.events[e].rows > 0 ELSE req[w].found
     IN IF waited /\ webhook_event_is_processed(db, e)
        THEN /\ UNCHANGED db
             /\ Done(w, "stripe_webhook", 200, "dedup_waited")
        ELSE /\ db' = process_stripe_webhook(db, e, found, now)[1]
             /\ Done(w, "stripe_webhook", 200, WebhookNote(db, e))
  /\ UNCHANGED <<now, started, mode>>

\* views.py stripe_webhook, lines 395-400: the Webhook Processor commits
\* and the view answers by what it returned.  A delivery that waited goes
\* on once the event is free: it looks the event up, is answered as a
\* duplicate when the event is processed by then, and otherwise
\* dispatches it like any other.
stripe_webhook(w) ==
  /\ req[w].op = "stripe_webhook"
  /\ req[w].pc = "waiting" => ~webhook_event_locked(req[w].event)
  /\ LET e == req[w].event
         waited == req[w].pc = "waiting"
         found == IF waited THEN db.events[e].rows > 0 ELSE req[w].found
         r == process_stripe_webhook(db, e, found, now)
     IN IF waited /\ webhook_event_is_processed(db, e)
        THEN /\ UNCHANGED db
             /\ Done(w, "stripe_webhook", 200, "dedup_waited")
        ELSE /\ db' = r[1]
             /\ Done(w, "stripe_webhook", IF r[2] THEN 200 ELSE 400, WebhookNote(db, e))
  /\ UNCHANGED <<now, started, mode>>

\* WebhookEvent.mark_as_processed(), called on the instance the job read:
\* the row is saved as processed; the save of an instance whose row is
\* gone inserts it again, created at that moment.
mark_as_processed(d, e, t) ==
  IF d.events[e].rows = 0
  THEN [d EXCEPT !.events[e] = [status |-> "processed", created_at |-> t, rows |-> 1]]
  ELSE [d EXCEPT !.events[e].status = "processed"]

\* The backlog: WebhookEvent rows left failed on day 0 by deliveries of
\* events whose payment is none of this ledger's, so that their dispatch
\* fails whenever it is tried again.  Those of them the window of the
\* retry job holds at time t.
backlog_in_window(d, t) == IF 0 >= t - RetryWindow THEN d.backlog ELSE 0

\* Variant of slice_size without the cap.
slice_size_uncapped(n) == n

\* tasks.py line 48, the slice [:50] of a queryset of n rows: the number of
\* rows it yields.
slice_size(n) == IF n <= RetryBatch THEN n ELSE RetryBatch

\* Variant of failed_events that selects the events still pending instead
\* of the failed ones.
failed_events_pending(d, t) ==
  {[events |-> {e \in EventIds : d.events[e].status = "pending"
                                   /\ d.events[e].created_at >= t - RetryWindow},
    crowd |-> 0]}

\* tasks.py retry_failed_webhook_events, lines 43-48: the failed events of
\* the last 24 hours, at most 50 of them (the queryset has no ordering:
\* any 50).  A batch is the events of EventIds in it and the number of
\* backlog events that fill the rest of it.
failed_events(d, t) ==
  LET named == {e \in EventIds : d.events[e].status = "failed"
                                   /\ d.events[e].created_at >= t - RetryWindow}
      n == slice_size(Cardinality(named) + backlog_in_window(d, t))
  IN {[events |-> S, crowd |-> n - Cardinality(S)] :
        S \in {T \in SUBSET named : n - Cardinality(T) \in 0..backlog_in_window(d, t)}}

\* The run of the retry job in request r has no event left to take.
BatchDone(r) == r.events = {} /\ r.crowd = 0

\* tasks.py retry_failed_webhook_events: the job starts and reads its
\* batch; with an empty batch it returns 0 at once.
retry_failed_webhook_events_load(w) ==
  /\ StartJob(w)
  /\ \E batch \in failed_events(db, now) :
       IF BatchDone(batch)
       THEN Done(w, "retry_failed_webhook_events", 0, "none")
       ELSE Goto(w, [Idle EXCEPT !.op = "retry_failed_webhook_events", !.pc = "loop",
                                 !.events = batch.events, !.crowd = batch.crowd])
  /\ UNCHANGED <<db, now, mode>>

\* tasks.py retry_failed_webhook_events, lines 52-53: a round of the loop
\* hands event e of the batch to the Webhook Processor again, whose lookup
\* is guarded: the round waits while a delivery holds the event; an event
\* processed by now is a duplicate, accepted with nothing written; any
\* other is held for its dispatch.
retry_failed_webhook_events_lookup(w, e) ==
  /\ req[w].op = "retry_failed_webhook_events" /\ req[w].pc = "loop"
  /\ e \in req[w].events
  /\ ~webhook_event_locked(e)
  /\ IF webhook_event_is_processed(db, e)
     THEN Goto(w, [req[w] EXCEPT !.pc = "mark", !.events = @ \ {e}, !.event = e,
                                 !.note = "dedup"])
     ELSE Goto(w, [req[w] EXCEPT !.pc = "locked", !.events = @ \ {e}, !.event = e,
                                 !.found = db.events[e].rows > 0])
  /\ UNCHANGED <<db, now, started, mode>>

\* tasks.py retry_failed_webhook_events, line 53: the Webhook Processor
\* dispatches the event of the round and commits what it did.  The rounds
\* on the backlog events of the batch are taken together: their dispatch
\* fails as it did before and leaves every row as it is.
retry_failed_webhook_events(w) ==
  /\ req[w].op = "retry_failed_webhook_events"
  /\ req[w].pc = "locked" \/ (req[w].pc = "loop" /\ req[w].crowd > 0)
  /\ IF req[w].pc = "loop"
     THEN /\ db' = db
          /\ IF req[w].events = {}
             THEN Done(w, "retry_failed_webhook_events", req[w].amount, "none")
             ELSE Goto(w, [req[w] EXCEPT !.crowd = 0])
     ELSE LET e == req[w].event
              r == process_stripe_webhook(db, e, req[w].found, now)
          IN /\ db' = r[1]
             /\ IF r[2]
                THEN Goto(w, [req[w] EXCEPT !.pc = "mark", !.found = FALSE,
                                            !.note = WebhookNote(db, e)])
                ELSE IF BatchDone(req[w])
                     THEN Done(w, "retry_failed_webhook_events", req[w].amount,
                               WebhookNote(db, e))
                     ELSE Goto(w, [req[w] EXCEPT !.pc = "loop", !.event = "none",
                                                 !.found = FALSE])
  /\ UNCHANGED <<now, started, mode>>

\* tasks.py retry_failed_webhook_events, lines 54-58: the event the
\* processor accepted is marked processed and counted; after the last
\* event the job returns its count.
retry_failed_webhook_events_mark(w) ==
  /\ req[w].op = "retry_failed_webhook_events" /\ req[w].pc = "mark"
  /\ db' = mark_as_processed(db, req[w].event, now)
  /\ IF BatchDone(req[w])
     THEN Done(w, "retry_failed_webhook_events", req[w].amount + 1, req[w].note)
     ELSE Goto(w, [req[w] EXCEPT !.pc = "loop", !.amount = @ + 1,
                                 !.event = "none", !.note = "none"])
  /\ UNCHANGED <<now, started, mode>>

\* tasks.py cleanup_old_payments, lines 10-16: the failed and cancelled
\* payments created more than 90 days ago.
old_payments(d, t) ==
  {p \in PaymentIds : d.payment[p].status \in {"failed", "cancelled"}
                        /\ d.payment[p].created_at < t - PaymentRetention}

\* QuerySet.delete() on Payment, the deletion of the rows collected: the
\* payments of S go by primary key, whatever they hold by now, and with
\* them the refunds and the attempts that belong to them; the subscription
\* and its history stay.
payments_delete(d, S) ==
  [d EXCEPT !.payment = [p \in PaymentIds |-> IF p \in S THEN NoPayment ELSE @[p]],
            !.refunds = [p \in PaymentIds |-> IF p \in S THEN <<>> ELSE @[p]],
            !.attempts = [p \in PaymentIds |-> IF p \in S THEN 0 ELSE @[p]]]

\* The first element of what QuerySet.delete() returns for the Payment
\* rows S: the number of objects deleted, the rows that are still there
\* and the Refund and PaymentAttempt rows that go with them.
RECURSIVE payments_deleted(_, _)
payments_deleted(d, S) ==
  IF S = {} THEN 0
  ELSE LET p == CHOOSE q \in S : TRUE
       IN (IF d.payment[p].status = "none" THEN 0
           ELSE 1 + Len(d.refunds[p]) + d.attempts[p])
          + payments_deleted(d, S \ {p})

\* The schedule starts cleanup_old_payments on worker w.  In the
\* concurrent specification a run that has rows to delete is the
\* schedule's own and not one of the bounded number of steps, so that it
\* meets every request in flight; elsewhere, and when it has nothing to
\* delete, it is a step like any other.
StartCleanup(w) ==
  IF Concurrent /\ old_payments(db, now) # {}
  THEN WorkerFree(w) /\ UNCHANGED started
  ELSE Start(w)

\* tasks.py cleanup_old_payments, lines 10-18: the job starts and
\* QuerySet.delete() collects the rows that match the filter (Payment has
\* rows that refer to it, so the delete is not one statement).
cleanup_old_payments_load(w) ==
  /\ StartCleanup(w)
  /\ IF old_payments(db, now) = {}
     THEN Done(w, "cleanup_old_payments", 0, "none")
     ELSE Goto(w, [Idle EXCEPT !.op = "cleanup_old_payments", !.pc = "collected",
                               !.rows = old_payments(db, now)])
  /\ UNCHANGED <<db, now, mode>>

\* tasks.py cleanup_old_payments, lines 18-20: the rows collected are
\* deleted by primary key in one transaction; the answer is the number of
\* objects deleted.
cleanup_old_payments(w) ==
  /\ req[w].op = "cleanup_old_payments" /\ req[w].pc = "collected"
  /\ db' = payments_delete(db, req[w].rows)
  /\ Done(w, "cleanup_old_payments", payments_deleted(db, req[w].rows), "none")
  /\ UNCHANGED <<now, started, mode>>

\* tasks.py cleanup_old_webhook_events, lines 25-31: the processed and
\* ignored events created more than 30 days ago.
old_events(d, t) ==
  {e \in EventIds : d.events[e].status \in {"processed", "ignored"}
                      /\ d.events[e].created_at < t - WebhookRetention}

\* QuerySet.delete() on WebhookEvent rows: the rows go.
events_delete(d, S) ==
  [d EXCEPT !.events = [e \in EventIds |-> IF e \in S THEN NoEvent ELSE @[e]]]

\* tasks.py cleanup_old_webhook_events: one run of the job, a single delete
\* of the rows selected; the answer is the number deleted.
cleanup_old_webhook_events(w) ==
  /\ Start(w)
  /\ db' = events_delete(db, old_events(db, now))
  /\ Done(w, "cleanup_old_webhook_events", Cardinality(old_events(db, now)), "none")
  /\ UNCHANGED <<now, mode>>

\* ------------------------------------------------- Entitlement Engine
\* PinPostSerializer.validate_post_id: the post is published and the
\* user's own.
validate_post_id(u, post) == post.status = "published" /\ post.author = u

\* PinnedPostSerializer.validate_post: the same two checks.
validate_post(u, post) == post.author = u /\ post.status = "published"

\* PinPostSerializer.validate: the user has a subscription and it is active.
PinPostSerializer_validate(d, u) ==
  /\ user_subscription(d, u) # {}
  /\ is_active(d.sub[subscription_of(d, u)])

\* UnpinPostSerializer.validate: the user has a pinned post.
UnpinPostSerializer_validate(d, u) == pinned_post(d, u) # {}

\* Variant of PinnedPost_insert with no one-to-one constraint on the user
\* of a PinnedPost.
PinnedPost_insert_duplicate(d, u, post) ==
  [d EXCEPT !.pins = @ \cup {[id |-> d.pin_seq + 1, user |-> u, post |-> post.id]},
            !.pin_seq = @ + 1]

\* The INSERT of a PinnedPost row of user u, under the next primary key of
\* the table: a second row for a user raises IntegrityError (one-to-one
\* link) and nothing is written.
PinnedPost_insert(d, u, post) ==
  IF pinned_post(d, u) # {}
  THEN d
  ELSE [d EXCEPT !.pins = @ \cup {[id |-> d.pin_seq + 1, user |-> u, post |-> post.id]},
                 !.pin_seq = @ + 1]

\* PinnedPostSerializer.create inside one transaction: the row of the user
\* is inserted and the post_save receiver runs; when the insert raises,
\* nothing is written.
PinnedPostSerializer_create(d, u, post) ==
  LET row == [id |-> d.pin_seq + 1, user |-> u, post |-> post.id]
      d1 == PinnedPost_insert(d, u, post)
  IN IF d1 = d THEN d ELSE pinned_post_post_save(d1, row, TRUE)

\* pin(user, post) (specification 4.5), one atomic unit: validation by
\* PinPostSerializer, then the pinned post of the user is replaced.
pin_post(w, u, post) ==
  /\ Start(w)
  /\ u \in Callers /\ post \in Pinnable
  /\ IF ~validate_post_id(u, post) \/ ~PinPostSerializer_validate(db, u)
     THEN /\ UNCHANGED db
          /\ Done(w, "pin_post", 400, "none")
     ELSE /\ db' = PinnedPostSerializer_create(delete_pinned_posts(db, u), u, post)
          /\ Done(w, "pin_post", 201, IF pinned_post(db, u) # {} THEN "replaced" ELSE "none")
  /\ UNCHANGED <<now, mode>>

\* unpin(user) (specification 4.5): validation by UnpinPostSerializer, then
\* the pinned post of the user is deleted.
unpin_post(w, u) ==
  /\ Start(w)
  /\ u \in Callers
  /\ IF ~UnpinPostSerializer_validate(db, u)
     THEN /\ UNCHANGED db
          /\ Done(w, "unpin_post", 400, "none")
     ELSE /\ db' = delete_pinned_posts(db, u)
          /\ Done(w, "unpin_post", 200, "none")
  /\ UNCHANGED <<now, mode>>

\* A PinnedPost saved through PinnedPostSerializer, outside any
\* transaction: is_valid runs validate_post alone (the method named
\* validete is never called), then save runs create, whose INSERT is
\* committed before the post_save receiver runs.  An IntegrityError of the
\* INSERT is not a validation error: it leaves the serializer as an
\* unhandled exception (500).
pinned_post_create(w, u, post) ==
  /\ Start(w)
  /\ u \in Callers /\ post \in Pinnable
  /\ IF ~validate_post(u, post)
     THEN /\ UNCHANGED db
          /\ Done(w, "pinned_post_create", 400, "none")
     ELSE /\ db' = PinnedPost_insert(db, u, post)
          /\ IF pinned_post(db, u) # {}
             THEN Done(w, "pinned_post_create", 500, "none")
             ELSE Goto(w, [Idle EXCEPT !.op = "pinned_post_create", !.pc = "inserted",
                                       !.snap = [NoPayment EXCEPT !.user = u],
                                       !.amount = post.id, !.pin = db.pin_seq + 1])
  /\ UNCHANGED <<now, mode>>

\* subscribe/signals.py pinned_post_post_save, lines 43-45, run for the row
\* the request has inserted: the guard reads the subscription of the user,
\* which stays cached on the instance.  The request goes on to log the pin
\* ("pin") or to delete the row, with a history row when the user has a
\* subscription ("delete_logged") and without one otherwise ("delete"); pid
\* is the subscription read.
pinned_post_create_guard(w) ==
  /\ req[w].op = "pinned_post_create" /\ req[w].pc = "inserted"
  /\ LET u == req[w].snap.user
         has == user_subscription(db, u) # {}
         p == IF has THEN subscription_of(db, u) ELSE "p1"
     IN Goto(w, [req[w] EXCEPT !.pc = "guarded", !.pid = p,
                               !.note = IF ~has THEN "delete"
                                        ELSE IF is_active(db.sub[p]) THEN "pin"
                                        ELSE "delete_logged"])
  /\ UNCHANGED <<db, now, started, mode>>

\* subscribe/signals.py pinned_post_post_save, lines 47-56: what the guard
\* decided is written, with the subscription the guard read.  A pin is
\* logged as post_pinned (51-56); a row refused is deleted by
\* instance.delete() (47): the DELETE names the primary key of the row the
\* request inserted and removes no other row, and its pre_delete receiver
\* (59-69) logs post_unpinned when the user had a subscription, in the
\* transaction of the DELETE.  Then the serializer returns (201).
pinned_post_create_saved(w) ==
  /\ req[w].op = "pinned_post_create" /\ req[w].pc = "guarded"
  /\ LET p == req[w].pid
     IN IF req[w].note = "pin"
        THEN /\ db' = [db EXCEPT !.hist[p] = Append(@, "post_pinned")]
             /\ Done(w, "pinned_post_create", 201,
                     IF \A r \in db.pins : r.id # req[w].pin THEN "removed" ELSE "none")
        ELSE /\ db' = [db EXCEPT !.hist[p] = IF req[w].note = "delete_logged"
                                             THEN Append(@, "post_unpinned") ELSE @,
                                 !.pins = {r \in @ : r.id # req[w].pin}]
             /\ Done(w, "pinned_post_create", 201, "removed")
  /\ UNCHANGED <<now, started, mode>>

\* Time passes, by one unit of the clock or by several.  The clock counts
\* days and a request is over within the day it started: the clock
\* advances between requests.  An advance of the clock counts among the
\* steps a run may take, like a request.
Tick ==
  /\ started < MaxRequests
  /\ \A w \in Workers : req[w] = Idle
  /\ started' = started + 1
  /\ \E t \in Clock : t > now /\ now' = t
  /\ UNCHANGED <<db, req, resp, mode>>

\* ------------------------------------------------------- specification
EmptyLedger ==
  [payment |-> [p \in PaymentIds |-> NoPayment],
   sub |-> [p \in PaymentIds |-> NoSubscription],
   hist |-> [p \in PaymentIds |-> <<>>],
   refunds |-> [p \in PaymentIds |-> <<>>],
   attempts |-> [p \in PaymentIds |-> 0],
   events |-> [e \in EventIds |-> NoEvent],
   backlog |-> 0,
   pins |-> {},
   pin_seq |-> 0]

InitCommon ==
  /\ now = 0
  /\ req = [w \in Workers |-> Idle]
  /\ resp = [op |-> "none", code |-> 0, note |-> "none"]
  /\ started = 0

Init == InitCommon /\ db = EmptyLedger /\ mode = "seq"
InitConc == InitCommon /\ db = EmptyLedger /\ mode = "conc"
InitRace == InitCommon /\ db = EmptyLedger /\ mode = "race"

Next ==
  \/ \E w \in Workers, u \in Buyers, plan \in Plans : create_checkout_session_load(w, u, plan)
  \/ \E w \in Workers, session \in {"ok", "none", "raise"} : create_checkout_session(w, session)
  \/ \E w \in Workers, u \in Buyers, plan \in Plans : subscription_create_load(w, u, plan)
  \/ \E w \in Workers : subscription_create_insert(w)
  \/ \E w \in Workers : subscription_create(w)
  \/ \E w \in Workers, u \in Users, p \in PaymentIds : payment_status_load(w, u, p)
  \/ \E w \in Workers, info \in {"none", "open", "complete", "failed"} : payment_status(w, info)
  \/ \E w \in Workers, u \in Users, p \in PaymentIds : cancel_payment_load(w, u, p)
  \/ \E w \in Workers : cancel_payment_save(w)
  \/ \E w \in Workers : cancel_payment_subscription(w)
  \/ \E w \in Workers : cancel_payment(w)
  \/ \E w \in Workers, u \in Users, p \in PaymentIds : retry_payment_load(w, u, p)
  \/ \E w \in Workers, ok \in BOOLEAN : retry_payment_session(w, ok)
  \/ \E w \in Workers : retry_payment(w)
  \/ \E w \in Workers, p \in PaymentIds, amount \in RefundAmounts : create_refund_load(w, p, amount)
  \/ \E w \in Workers, ok \in BOOLEAN : create_refund(w, ok)
  \/ \E w \in Workers, e \in EventIds, verified \in BOOLEAN : stripe_webhook_load(w, e, verified)
  \/ \E w \in Workers : stripe_webhook(w)
  \/ \E w \in Workers : retry_failed_webhook_events_load(w)
  \/ \E w \in Workers, e \in EventIds : retry_failed_webhook_events_lookup(w, e)
  \/ \E w \in Workers : retry_failed_webhook_events(w)
  \/ \E w \in Workers : retry_failed_webhook_events_mark(w)
  \/ \E w \in Workers : cleanup_old_payments_load(w)
  \/ \E w \in Workers : cleanup_old_payments(w)
  \/ \E w \in Workers : cleanup_old_webhook_events(w)
  \/ \E w \in Workers, u \in Users, post \in Posts : pin_post(w, u, post)
  \/ \E w \in Workers, u \in Users : unpin_post(w, u)
  \/ \E w \in Workers, u \in Users, post \in Posts : pinned_post_create(w, u, post)
  \/ \E w \in Workers : pinned_post_create_guard(w)
  \/ \E w \in Workers : pinned_post_create_saved(w)
  \/ Tick

Spec == Init /\ [][Next]_vars
SpecConc == InitConc /\ [][Next]_vars

\* The refund race: the concurrent specification with one more request, the
\* checkout that opens the payment, so that a subscription can be paid,
\* hold a PinnedPost, and be cancelled and refunded by overlapping
\* requests.
SpecRace == InitRace /\ [][Next]_vars

\* The steps that continue a request in flight: a handler runs to its end.
HandlerStep ==
  \/ \E w \in Workers, info \in {"none", "open", "complete", "failed"} : payment_status(w, info)
  \/ \E w \in Workers : cancel_payment_save(w) \/ cancel_payment_subscription(w)
  \/ \E w \in Workers : cancel_payment(w) \/ retry_payment(w)
  \/ \E w \in Workers : pinned_post_create_guard(w) \/ pinned_post_create_saved(w)
  \/ \E w \in Workers : cleanup_old_payments(w) \/ stripe_webhook(w)
  \/ \E w \in Workers : subscription_create_insert(w) \/ subscription_create(w)
  \/ \E w \in Workers, session \in {"ok", "none", "raise"} : create_checkout_session(w, session)
  \/ \E w \in Workers, ok \in BOOLEAN : retry_payment_session(w, ok) \/ create_refund(w, ok)

\* The steps of the retry job: a run starts, or takes the next event of
\* its batch.
RetryJobStep ==
  \/ \E w \in Workers : retry_failed_webhook_events_load(w)
  \/ \E w \in Workers, e \in EventIds : retry_failed_webhook_events_lookup(w, e)
  \/ \E w \in Workers : retry_failed_webhook_events(w)
  \/ \E w \in Workers : retry_failed_webhook_events_mark(w)

\* The handlers run one after another and the periodic schedule keeps
\* starting the retry job: a request in flight is continued and the job is
\* run whenever it stays possible.  The ledger starts with a backlog of
\* failed events that fills a batch of the job.
InitPeriodic ==
  /\ InitCommon
  /\ db = [EmptyLedger EXCEPT !.backlog = MaxBacklog]
  /\ mode = "periodic"
SpecPeriodic ==
  InitPeriodic /\ [][Next]_vars /\ WF_vars(HandlerStep) /\ WF_vars(RetryJobStep)

\* ============================================================== claims
\* The rows of the ledger that belong to payment p.
Rows(d, p) == <<d.payment[p], d.sub[p], d.hist[p], d.refunds[p]>>

\* How often action a is in history log h.
Count(h, a) == Cardinality({i \in 1..Len(h) : h[i] = a})

\* The history rows that record an activation.
Activations(d, p) == Count(d.hist[p], "activated") + Count(d.hist[p], "active")

\* The step starts a request of view op: the view has answered or holds
\* the worker.
Starts(op) ==
  /\ started' = started + 1
  /\ resp'.op = op \/ \E w \in Workers : req'[w].op = op

\* A step of a verified delivery of event e in the hands of worker w: the
\* delivery arrives, or the Webhook Processor commits and the view answers.
Delivery(w, e) ==
  \/ Starts("stripe_webhook") /\ stripe_webhook_load(w, e, TRUE)
  \/ req[w].event = e /\ stripe_webhook(w)

\* The step of a delivery of event e in which the Webhook Processor
\* dispatches it.
Dispatch(w, e) ==
  /\ req[w].event = e /\ stripe_webhook(w)
  /\ resp'.note # "dedup_waited"

\* A step of a round of the retry job on event e: the guarded lookup, or
\* the dispatch.
Round(w, e) ==
  \/ retry_failed_webhook_events_lookup(w, e)
  \/ req[w].event = e /\ retry_failed_webhook_events(w)

\* The edges of the payment state machine (specification 4.2).
AllowedEdges ==
  {<<"pending", "processing">>, <<"pending", "succeeded">>, <<"processing", "succeeded">>,
   <<"pending", "failed">>, <<"processing", "failed">>, <<"pending", "cancelled">>,
   <<"failed", "processing">>}

\* C1: when the handlers run one after another, every change of the status
\* of a payment that stays in the ledger follows an edge of the state
\* machine; a cancel_payment of a
\* payment that is not pending and a retry_payment of a payment that is not
\* failed are answered with an error status and change nothing.
C1_TransitionsFollowEdges ==
  [][\A p \in PaymentIds :
       /\ (/\ db.payment[p].status # "none" /\ db'.payment[p].status # "none"
           /\ db'.payment[p].status # db.payment[p].status)
            => <<db.payment[p].status, db'.payment[p].status>> \in AllowedEdges
       /\ \A w \in Workers, u \in Users :
            /\ (/\ db.payment[p].status \notin {"none", "pending"}
                /\ Starts("cancel_payment")
                /\ cancel_payment_load(w, u, p))
                 => (db' = db /\ req'[w] = Idle /\ resp'.code \in {400, 404})
            /\ (/\ db.payment[p].status # "failed"
                /\ Starts("retry_payment")
                /\ retry_payment_load(w, u, p))
                 => (db' = db /\ req'[w] = Idle /\ resp'.code = 404)]_vars

\* C1 witness: a payment that failed was retried and is processing, and the
\* last request, a cancel_payment of it, was refused.
C1_Witness ==
  \E p \in PaymentIds :
    /\ db.payment[p].status = "processing"
    /\ resp.op = "cancel_payment" /\ resp.code = 400

\* C2: a payment that is succeeded or cancelled keeps that status in every
\* step that leaves it in the ledger, whatever the interleaving of the
\* handlers.
C2_TerminalStatesStay ==
  [][\A p \in PaymentIds :
       (db.payment[p].status \in {"succeeded", "cancelled"} /\ db'.payment[p].status # "none")
         => db'.payment[p].status = db.payment[p].status]_vars

\* C3: a step that makes a subscription active is a step that moves its
\* payment from pending or processing to succeeded.
C3_ActivationOnlyOnSuccess ==
  [][\A p \in PaymentIds :
       (db.sub[p].status # "active" /\ db'.sub[p].status = "active")
         => /\ db'.payment[p].status = "succeeded"
            /\ db.payment[p].status \in {"pending", "processing"}]_vars

\* C3 witness: an active subscription with its succeeded payment, activated
\* by a webhook.
C3_Witness ==
  \E p \in PaymentIds :
    /\ db.sub[p].status = "active" /\ db.payment[p].status = "succeeded"
    /\ resp.op = "stripe_webhook" /\ resp.note = "success_applied"

\* C4: no committed state holds a succeeded payment whose subscription is
\* still pending.
C4_SuccessIsAtomic ==
  \A p \in PaymentIds :
    ~(db.payment[p].status = "succeeded" /\ db.sub[p].status = "pending")

\* C4 witness: the success transition, triggered from payment_status, has
\* committed payment, subscription and history row together.
C4_Witness ==
  \E p \in PaymentIds :
    /\ db.payment[p].status = "succeeded" /\ db.sub[p].status = "active"
    /\ Count(db.hist[p], "activated") = 1
    /\ resp.op = "payment_status" /\ resp.note = "success_applied"

\* C5: a verified checkout.session.completed webhook, not yet processed, for
\* a pending payment with a pending subscription leaves the payment
\* succeeded, the subscription active from now until now + duration_days,
\* and exactly one more history row, the only one recording an activation.
C5_SuccessWebhookActivates ==
  [][\A w \in Workers, e \in EventIds :
       LET p == EventPayment(e)
       IN (/\ EventType(e) = "checkout.session.completed"
           /\ db.events[e].status # "processed"
           /\ db.payment[p].status = "pending" /\ db.payment[p].session
           /\ db.sub[p].status = "pending"
           /\ Dispatch(w, e))
          => /\ db'.payment[p].status = "succeeded"
             /\ db'.sub[p].status = "active"
             /\ db'.sub[p].start_date = now
             /\ db'.sub[p].end_date = now + db.sub[p].duration_days
             /\ Len(db'.hist[p]) = Len(db.hist[p]) + 1
             /\ Activations(db', p) = 1
             /\ resp'.code = 200]_vars

\* C5 witness: checkout at time 0, success webhook at a later time: the
\* subscription runs from the activation time for the plan's duration.
C5_Witness ==
  \E p \in PaymentIds :
    /\ db.payment[p].status = "succeeded" /\ db.sub[p].status = "active"
    /\ db.sub[p].start_date > 0
    /\ db.sub[p].end_date = db.sub[p].start_date + db.sub[p].duration_days
    /\ db.hist[p] = <<"created", "activated">>
    /\ resp.op = "stripe_webhook" /\ resp.note = "success_applied"

\* C6: for a succeeded payment, process_successful_payment and the call the
\* post-save hook makes return the ledger as it is, and a success webhook or
\* a payment_status check that meets the payment succeeded changes none of
\* its rows.
C6_SuccessIsIdempotent ==
  [][\A p \in PaymentIds :
       db.payment[p].status = "succeeded"
         => /\ process_successful_payment(db, p, now) = db
            /\ payment_post_save(db, p, FALSE, "pending", now) = db
            /\ \A w \in Workers :
                 /\ payment_status(w, "complete") /\ req[w].pid = p => Rows(db', p) = Rows(db, p)
                 /\ \A e \in EventIds :
                      (/\ EventPayment(e) = p
                       /\ EventType(e) = "checkout.session.completed"
                       /\ Delivery(w, e))
                      => Rows(db', p) = Rows(db, p)]_vars

\* C6 witness: a success transition was asked for a payment already
\* succeeded, and the subscription still has its single activation.
C6_Witness ==
  \E p \in PaymentIds :
    /\ resp.note = "success_rejected"
    /\ db.payment[p].status = "succeeded" /\ db.sub[p].status = "active"
    /\ Activations(db, p) = 1

\* C7: a verified delivery of an event whose WebhookEvent is processed is
\* answered 200 and leaves the whole ledger as it is.
C7_DuplicateWebhookIsNoop ==
  [][\A w \in Workers, e \in EventIds :
       (db.events[e].status = "processed" /\ Delivery(w, e))
         => (db' = db /\ req'[w] = Idle /\ resp'.op = "stripe_webhook" /\ resp'.code = 200)]_vars

\* C7 witness: the duplicate of a processed event was delivered after its
\* payment had moved on.
C7_Witness ==
  /\ resp.op = "stripe_webhook" /\ resp.note = "dedup" /\ resp.code = 200
  /\ db.events["e2"].status = "processed"
  /\ \E p \in PaymentIds : db.payment[p].status = "processing"

\* The deliveries of event e that are past the lookup and have not
\* committed, in ledger state r of the requests.
Holders(r, e) ==
  {w \in Workers : /\ r[w].op \in {"stripe_webhook", "retry_failed_webhook_events"}
                    /\ r[w].pc = "locked" /\ r[w].event = e}

\* C8: when deliveries of one event id, by the provider or by the retry
\* job, are in flight together, also among other requests, at most one of
\* them is past the lookup at a time and the id never has more than one
\* WebhookEvent row; a delivery that changes payment, subscription, history
\* or refund rows finds the event not processed and leaves it processed; a
\* delivery that finds the event processed, at once or after it waited for
\* another, changes nothing; and a processed event stays processed until
\* the cleanup job deletes its row, past its retention.
C8_OneDeliveryMutates ==
  [][\A e \in EventIds :
       /\ db'.events[e].rows <= 1
       /\ Cardinality(Holders(req', e)) <= 1
       /\ db.events[e].status = "processed"
            => \/ db'.events[e].status = "processed"
               \/ /\ resp'.op = "cleanup_old_webhook_events"
                  /\ e \in old_events(db, now)
                  /\ db'.events[e] = NoEvent
       /\ \A w \in Workers :
            (Delivery(w, e) \/ Round(w, e))
              => /\ db.events[e].status = "processed" => db' = db
                 /\ Rows(db', EventPayment(e)) # Rows(db, EventPayment(e))
                      => db'.events[e].status = "processed"
                 /\ db' # db => Holders(req', e) = {}]_vars

\* C8 witness: a delivery of the success event arrived while another
\* delivery of the same event was past the lookup, waited for it, found the
\* event processed and was answered as a duplicate; the payment is
\* succeeded by the one activation of the first.
C8_Witness ==
  /\ mode = "conc"
  /\ resp.op = "stripe_webhook" /\ resp.note = "dedup_waited" /\ resp.code = 200
  /\ db.events["e1"] = [status |-> "processed", created_at |-> now, rows |-> 1]
  /\ db.events["e2"].status = "none"
  /\ \E p \in PaymentIds : /\ db.payment[p].status = "succeeded" /\ db.sub[p].status = "active"
                            /\ Activations(db, p) = 1

\* C9: when a payment_status check and a webhook race for a payment, the
\* one that comes second finds the payment no longer pending or processing
\* and changes none of its rows; every activation row is written by a step
\* that moves the payment from pending or processing to succeeded.
C9_StatusCheckAndWebhookRace ==
  [][\A p \in PaymentIds :
       /\ Activations(db', p) # Activations(db, p)
            => /\ Activations(db', p) = Activations(db, p) + 1
               /\ db.payment[p].status \in {"pending", "processing"}
               /\ db'.payment[p].status = "succeeded"
       /\ db.payment[p].status \notin {"pending", "processing"}
            => \A w \in Workers :
                 /\ \A info \in {"complete", "failed"} :
                      (payment_status(w, info) /\ req[w].pid = p) => Rows(db', p) = Rows(db, p)
                 /\ \A e \in EventIds :
                      (EventPayment(e) = p /\ Delivery(w, e))
                        => Rows(db', p) = Rows(db, p)]_vars

\* C9 witness: a payment_status check that had read the payment as pending
\* asked for the success transition after a webhook had committed it.
C9_Witness ==
  \E p \in PaymentIds :
    /\ resp.op = "payment_status" /\ resp.note = "success_rejected"
    /\ db.events["e1"].status = "processed"
    /\ db.payment[p].status = "succeeded" /\ db.sub[p].status = "active"
    /\ Activations(db, p) = 1

\* The subscriptions of user u that are active.
ActiveSubscriptions(d, u) == {p \in user_subscription(d, u) : is_active(d.sub[p])}

\* C11: a user never has more than one active subscription, and a
\* create_checkout_session of a user who holds an active subscription is
\* answered 400 and leaves every Payment and Subscription row as it is.
C11_OneActiveSubscription ==
  [][/\ \A u \in Users : Cardinality(ActiveSubscriptions(db', u)) <= 1
     /\ \A u \in Users :
          (ActiveSubscriptions(db, u) # {} /\ Starts("create_checkout_session"))
            => \A w \in Workers, plan \in Plans :
                 create_checkout_session_load(w, u, plan)
                   => (db' = db /\ req'[w] = Idle /\ resp'.code = 400)]_vars

\* C11 witness: a user with an active subscription asked for another
\* checkout and was refused; no second payment exists.
C11_Witness ==
  \E u \in Users :
    /\ ActiveSubscriptions(db, u) # {}
    /\ resp.op = "create_checkout_session" /\ resp.code = 400
    /\ db.payment["p2"].status = "none"

\* C12: after any sequence of pin and unpin operations a user has at most
\* one PinnedPost.
C12_OnePinnedPost ==
  \A u \in Users : Cardinality(pinned_post(db, u)) <= 1

\* C12 witness: a user with a pinned post pinned another post, which took
\* the place of the first.
C12_Witness ==
  /\ resp.op = "pin_post" /\ resp.note = "replaced" /\ resp.code = 201
  /\ \E u \in Users : Cardinality(pinned_post(db, u)) = 1

\* The PinnedPost rows whose post-save guard is still to run: the rows
\* PinnedPostSerializer has inserted in the requests that have not returned.
UnguardedPins ==
  {row \in db.pins :
     \E w \in Workers : /\ req[w].op = "pinned_post_create" /\ req[w].pin = row.id
                        /\ \/ req[w].pc = "inserted"
                           \/ req[w].pc = "guarded" /\ req[w].note # "pin"}

\* C13: in every state each PinnedPost, once the post-save guard has run
\* for it, belongs to a user whose subscription is active, whatever
\* cancelled the subscription and however the PinnedPost was created.
C13_PinnedPostNeedsActiveSubscription ==
  \A row \in db.pins \ UnguardedPins :
    /\ user_subscription(db, row.user) # {}
    /\ is_active(db.sub[subscription_of(db, row.user)])

\* C14: no committed state has a cancelled subscription whose user still has
\* a PinnedPost that was there when the subscription was cancelled (a row
\* whose post-save guard has run): every path that cancels a subscription
\* deletes the PinnedPost in the same step.
C14_CancelDeletesPinnedPost ==
  \A p \in PaymentIds :
    (db.payment[p].status # "none" /\ db.sub[p].status = "cancelled")
      => pinned_post(db, db.sub[p].user) \subseteq UnguardedPins

\* The succeeded refunds of payment p that are of its full amount.
FullRefunds(d, p) ==
  {i \in 1..Len(d.refunds[p]) : /\ d.refunds[p][i].status = "succeeded"
                                /\ d.refunds[p][i].amount = d.payment[p].amount}

\* A cancel_payment and a full refund of payment p have both run to their
\* end and interleaved: the refund was accepted for the payment succeeded,
\* and the payment is cancelled, which it is only by the save of a
\* cancel_payment that had read it pending.
RefundedAndCancelled(p) ==
  /\ db.payment[p].status = "cancelled"
  /\ Cardinality(FullRefunds(db, p)) = 1
  /\ \A w \in Workers : req[w].pid = p => req[w].op \notin {"cancel_payment", "create_refund"}

\* C15: when a full refund and a cancel_payment of the same payment
\* interleave, in whatever order their steps commit, the subscription ends
\* cancelled, the user is left without a PinnedPost, and the history holds
\* a single cancelled entry.  The refund's step deletes every PinnedPost of
\* the user with exactly one post_unpinned record for each row it deletes
\* and writes the one cancelled entry; the last step of cancel_payment
\* leaves the subscription cancelled, deletes no PinnedPost and writes no
\* history, so that none of the two deletes a row the other has deleted.
\* A refund whose payment row cleanup_old_payments has deleted meanwhile
\* releases nothing: it leaves the ledger as it was.
C15_ReleasedOnce ==
  /\ [](\A p \in PaymentIds :
          RefundedAndCancelled(p)
            => /\ db.sub[p].status = "cancelled"
               /\ pinned_post(db, db.sub[p].user) \subseteq UnguardedPins
               /\ Count(db.hist[p], "cancelled") = 1)
  /\ [][\A p \in PaymentIds, w \in Workers :
         /\ (req[w].pid = p /\ db.sub[p].status # "none"
                /\ create_refund(w, TRUE) /\ req[w].amount = req[w].snap.amount)
              => IF db.payment[p].status = "none"
                 THEN db' = db /\ resp'.code = 500
                 ELSE /\ db'.sub[p].status = "cancelled"
                      /\ pinned_post(db', db.sub[p].user) = {}
                      /\ Count(db'.hist[p], "post_unpinned") - Count(db.hist[p], "post_unpinned")
                           = Cardinality(pinned_post(db, db.sub[p].user))
                      /\ Count(db'.hist[p], "cancelled") = Count(db.hist[p], "cancelled") + 1
                      /\ resp'.code = 201
         /\ (req[w].pid = p /\ cancel_payment(w))
              => /\ db'.sub[p].status = "cancelled"
                 /\ db'.pins = db.pins /\ db'.hist = db.hist
                 /\ resp'.code = 200]_vars

\* C15 witness: the subscriber had a post pinned; a cancel_payment that
\* had read the payment pending ended after a full refund of the same
\* payment had cancelled the subscription and deleted the PinnedPost.
C15_Witness ==
  \E p \in PaymentIds :
    /\ RefundedAndCancelled(p)
    /\ resp.op = "cancel_payment" /\ resp.code = 200
    /\ db.sub[p].status = "cancelled"
    /\ db.pins = {}
    /\ Count(db.hist[p], "post_pinned") = 1 /\ Count(db.hist[p], "post_unpinned") = 1
    /\ Count(db.hist[p], "cancelled") = 1

\* C16: a refund of the full amount of a succeeded payment with an active
\* subscription, accepted by the provider, leaves the Refund succeeded, the
\* subscription cancelled and the user without a PinnedPost, and is answered
\* 201.
C16_FullRefundCancels ==
  [][\A w \in Workers :
       LET p == req[w].pid
       IN (/\ create_refund(w, TRUE)
           /\ req[w].amount = db.payment[p].amount
           /\ db.payment[p].status = "succeeded"
           /\ db.sub[p].status = "active")
          => /\ Len(db'.refunds[p]) = Len(db.refunds[p]) + 1
             /\ db'.refunds[p][Len(db'.refunds[p])] = [amount |-> req[w].amount, status |-> "succeeded"]
             /\ db'.sub[p].status = "cancelled"
             /\ pinned_post(db', db.sub[p].user) = {}
             /\ resp'.code = 201]_vars

\* C16 witness: the full refund of a subscriber who had a post pinned.
C16_Witness ==
  \E p \in PaymentIds :
    /\ resp.op = "create_refund" /\ resp.code = 201
    /\ Cardinality(FullRefunds(db, p)) = 1
    /\ db.payment[p].status = "succeeded" /\ db.sub[p].status = "cancelled"
    /\ Count(db.hist[p], "post_pinned") = 1 /\ Count(db.hist[p], "post_unpinned") = 1
    /\ db.pins = {}

\* C17: when the provider refuses the refund, create_refund leaves one more
\* Refund row, of status failed, and the payment, the subscription, the
\* history and the PinnedPost rows as they were, and is answered 400.
C17_RefundFailureLeavesLedger ==
  [][\A w \in Workers :
       LET p == req[w].pid
       IN create_refund(w, FALSE)
          => /\ Len(db'.refunds[p]) = Len(db.refunds[p]) + 1
             /\ db'.refunds[p][Len(db'.refunds[p])] = [amount |-> req[w].amount, status |-> "failed"]
             /\ \A i \in 1..Len(db.refunds[p]) : db'.refunds[p][i] = db.refunds[p][i]
             /\ db'.payment = db.payment /\ db'.sub = db.sub
             /\ db'.hist = db.hist /\ db'.pins = db.pins
             /\ resp'.code = 400]_vars

\* C17 witness: a refused refund of a subscriber with a pinned post: the
\* failed Refund row is there, the entitlement untouched.
C17_Witness ==
  \E p \in PaymentIds :
    /\ resp.op = "create_refund" /\ resp.code = 400
    /\ Len(db.refunds[p]) = 1 /\ db.refunds[p][1].status = "failed"
    /\ db.payment[p].status = "succeeded" /\ db.sub[p].status = "active"
    /\ pinned_post(db, db.sub[p].user) # {}

\* C18: a create_refund for a payment that is not refundable, or of an
\* amount above what remains refundable, is answered 400 before the
\* provider is called and changes nothing.
C18_RefundRejected ==
  [][\A p \in PaymentIds :
       (db.payment[p].status # "none" /\ Starts("create_refund"))
         => \A w \in Workers, amount \in RefundAmounts :
              (/\ \/ db.payment[p].status # "succeeded"
                  \/ refunded_amount(db, p) >= db.payment[p].amount
                  \/ amount > db.payment[p].amount - refunded_amount(db, p)
               /\ create_refund_load(w, p, amount))
              => (db' = db /\ req'[w] = Idle /\ resp'.code = 400)]_vars

\* C18 witness: after a partial refund, a request for more than what
\* remains was refused and no Refund row was added.
C18_Witness ==
  \E p \in PaymentIds :
    /\ resp.op = "create_refund" /\ resp.code = 400
    /\ \A w \in Workers : req[w] = Idle
    /\ Len(db.refunds[p]) = 1 /\ db.refunds[p][1].status = "succeeded"
    /\ db.refunds[p][1].amount < db.payment[p].amount

\* C19: a failure event, from a webhook or from a payment_status check, for
\* a pending or processing payment whose subscription is pending leaves
\* the payment failed and the subscription cancelled; for a payment already
\* failed, process_failed_payment and the call of the post-save hook return
\* the ledger as it is, and a further failure event changes none of its rows.
C19_FailureCancels ==
  [][\A p \in PaymentIds :
       /\ db.payment[p].status = "failed"
            => /\ process_failed_payment(db, p, now) = db
               /\ payment_post_save(db, p, FALSE, "pending", now) = db
       /\ \A w \in Workers :
            (\/ (payment_status(w, "failed") /\ req[w].pid = p)
             \/ \E e \in EventIds :
                  /\ EventPayment(e) = p /\ db.payment[p].session
                  /\ EventType(e) = "payment_intent.payment_failed"
                  /\ db.events[e].status # "processed"
                  /\ Dispatch(w, e))
            => /\ (db.payment[p].status \in {"pending", "processing"} /\ db.sub[p].status = "pending")
                    => (db'.payment[p].status = "failed" /\ db'.sub[p].status = "cancelled")
               /\ db.payment[p].status = "failed" => Rows(db', p) = Rows(db, p)]_vars

\* C19 witness: a payment_status check that met a failed session after a
\* failure webhook had already failed the payment.
C19_Witness ==
  \E p \in PaymentIds :
    /\ resp.op = "payment_status" /\ resp.note = "failure_rejected"
    /\ db.payment[p].status = "failed" /\ db.sub[p].status = "cancelled"
    /\ db.events["e2"].status = "processed"

\* C20: a webhook request whose signature or payload does not verify is
\* answered 400 and leaves the whole ledger as it is.
C20_UnverifiedWebhookIsRefused ==
  [][\A w \in Workers, e \in EventIds :
       (Starts("stripe_webhook") /\ stripe_webhook_load(w, e, FALSE))
         => (db' = db /\ req'[w] = Idle /\ resp'.op = "stripe_webhook" /\ resp'.code = 400)]_vars

\* C20 witness: an unverified delivery for a pending payment with a
\* session: no WebhookEvent row exists and the payment is still pending.
C20_Witness ==
  /\ resp.op = "stripe_webhook" /\ resp.code = 400
  /\ \A e \in EventIds : db.events[e].status = "none"
  /\ \E p \in PaymentIds : db.payment[p].status = "pending" /\ db.payment[p].session

\* The event types the Webhook Processor dispatches.
KnownEventTypes == {"checkout.session.completed", "payment_intent.payment_failed"}

\* C21: when the dispatch of a verified webhook raises (an event of a known
\* type whose payment cannot be resolved), the WebhookEvent ends failed, the
\* response is 400 and no row of any payment changes; the response is 200
\* exactly when the event ends processed or ignored, and 400 otherwise.
C21_DispatchFailureIsRetryable ==
  [][\A w \in Workers, e \in EventIds :
       (Delivery(w, e) /\ req'[w] = Idle)
         => LET p == EventPayment(e)
                raises == /\ db.events[e].status # "processed"
                          /\ EventType(e) \in KnownEventTypes
                          /\ (db.payment[p].status = "none" \/ ~db.payment[p].session)
            IN /\ raises => /\ db'.events[e].status = "failed"
                            /\ resp'.code = 400
                            /\ \A q \in PaymentIds : Rows(db', q) = Rows(db, q)
               /\ resp'.code \in {200, 400}
               /\ (resp'.code = 200) <=> (db'.events[e].status \in {"processed", "ignored"})
               /\ (resp'.code = 400) <=> (db'.events[e].status = "failed")]_vars

\* C21 witness: a verified checkout.session.completed event met a pending
\* payment that has no provider session; the event is failed, the answer 400.
C21_Witness ==
  /\ resp.op = "stripe_webhook" /\ resp.code = 400
  /\ db.events["e1"].status = "failed"
  /\ \E p \in PaymentIds : db.payment[p].status = "pending" /\ ~db.payment[p].session

\* C22: a verified webhook of a type the processor does not know leaves its
\* WebhookEvent ignored, is answered 200, and changes no payment,
\* subscription, history or refund row.
C22_UnknownEventIsIgnored ==
  [][\A w \in Workers, e \in EventIds :
       (/\ EventType(e) \notin KnownEventTypes
        /\ Delivery(w, e) /\ req'[w] = Idle)
         => /\ db'.events[e].status = "ignored"
            /\ resp'.code = 200
            /\ \A q \in PaymentIds : Rows(db', q) = Rows(db, q)]_vars

\* C22 witness: an event of an unknown type was delivered while its payment
\* was pending with a provider session; the payment is still pending.
C22_Witness ==
  /\ resp.op = "stripe_webhook" /\ resp.code = 200
  /\ db.events["e3"].status = "ignored"
  /\ \E p \in PaymentIds : /\ db.payment[p].status = "pending" /\ db.payment[p].session
                            /\ db.sub[p].status = "pending"

\* The dispatch of event e would succeed: its payment exists and carries
\* the provider session.
HandlerSucceeds(d, e) ==
  d.payment[EventPayment(e)].status # "none" /\ d.payment[EventPayment(e)].session

\* Event e was created within the window the retry job looks back.
InRetryWindow(d, e, t) == d.events[e].created_at >= t - RetryWindow

\* The failed events of EventIds that the window of the retry job holds.
Retryable(d, t) ==
  {e \in EventIds : d.events[e].status = "failed" /\ InRetryWindow(d, e, t)}

\* The failed events within the window, the backlog among them, are no more
\* than a batch of the retry job takes.
WithinBatch(d, t) ==
  Cardinality(Retryable(d, t)) + backlog_in_window(d, t) <= RetryBatch

\* The rounds of the retry job work on the existing row of the event (its
\* creation time stays and no second row is added), turn a failed event
\* whose payment is pending or processing into a processed one with the
\* payment's transition applied, change nothing for an event already
\* processed, and no payment ever has more than one activation row.
RetryAppliesOnce ==
  /\ [][\A p \in PaymentIds : Activations(db', p) <= 1]_vars
  /\ [][\A w \in Workers, e \in EventIds :
         /\ retry_failed_webhook_events_lookup(w, e) => db' = db
         /\ (req[w].event = e /\ retry_failed_webhook_events(w))
           => LET p == EventPayment(e)
              IN /\ db.events[e].status # "none"
                 /\ db'.events[e].created_at = db.events[e].created_at
                 /\ db'.events[e].rows = 1
                 /\ db.events[e].status = "processed" => db' = db
                 /\ (/\ db.events[e].status = "failed"
                     /\ HandlerSucceeds(db, e)
                     /\ db.payment[p].status \in {"pending", "processing"})
                      => /\ db'.events[e].status = "processed"
                         /\ db'.payment[p].status =
                              IF EventType(e) = "checkout.session.completed"
                              THEN "succeeded" ELSE "failed"
                         /\ Activations(db', p) =
                              IF EventType(e) = "checkout.session.completed" /\ db.sub[p].status # "none"
                              THEN Activations(db, p) + 1 ELSE Activations(db, p)]_vars

\* C23, as the claim states it: with the retry job run again and again, a
\* failed WebhookEvent (an event of a type that is dispatched: no other
\* fails) whose dispatch now succeeds becomes processed unless it first
\* falls out of the window of the job, and its transition is applied once.
C23_FailedEventIsRetried ==
  /\ \A e \in {id \in EventIds : EventType(id) \in KnownEventTypes} :
       (db.events[e].status = "failed" /\ HandlerSucceeds(db, e) /\ InRetryWindow(db, e, now))
         ~> (db.events[e].status = "processed" \/ ~InRetryWindow(db, e, now))
  /\ RetryAppliesOnce

\* C23, corrected: with the retry job run again and again, a failed
\* WebhookEvent whose dispatch now succeeds becomes processed unless it
\* first falls out of the window of the job, provided the failed events
\* within the window are no more than the 50 a run takes (beyond 50 a run
\* may leave the event out of its batch every time); its transition is
\* applied once, on the row that failed.
C23_FailedEventIsRetriedWithinBatch ==
  /\ \A e \in {id \in EventIds : EventType(id) \in KnownEventTypes} :
       (/\ db.events[e].status = "failed" /\ HandlerSucceeds(db, e)
        /\ InRetryWindow(db, e, now) /\ WithinBatch(db, now))
         ~> (\/ db.events[e].status = "processed"
             \/ ~InRetryWindow(db, e, now)
             \/ ~WithinBatch(db, now))
  /\ RetryAppliesOnce

\* C23 witness: a success event failed before its payment existed, on a day
\* by which the backlog has left the window; the retry job, whose batch
\* then holds every failed event of the window, processed it and the
\* subscription has one activation.
C23_Witness ==
  /\ mode = "periodic"
  /\ db.backlog = MaxBacklog /\ backlog_in_window(db, now) = 0
  /\ resp.op = "retry_failed_webhook_events" /\ resp.code = 1 /\ resp.note = "success_applied"
  /\ db.events["e1"].status = "processed" /\ InRetryWindow(db, "e1", now)
  /\ \E p \in PaymentIds : /\ db.payment[p].status = "succeeded" /\ db.sub[p].status = "active"
                            /\ Activations(db, p) = 1

\* C24: a run of the retry job takes a batch of at most 50 events, each of
\* them failed and created within the window: of n such events the batch
\* holds all when n is at most 50, and 50 of them, whichever, beyond.
\* Every round of the run re-attempts an event of that batch, still
\* failed, then marks it processed when the processor accepted it, and
\* changes no other event row, so that events pending, processed, ignored
\* or failed before the window are neither re-attempted nor modified.
C24_RetryBatchIsBounded ==
  [][\A w \in Workers :
       /\ (req[w] = Idle /\ req'[w].op = "retry_failed_webhook_events"
              /\ retry_failed_webhook_events_load(w))
            => /\ req'[w].events \subseteq Retryable(db, now)
               /\ req'[w].crowd \in 0..backlog_in_window(db, now)
               /\ Cardinality(req'[w].events) + req'[w].crowd <= RetryBatch
               /\ IF WithinBatch(db, now)
                  THEN /\ req'[w].events = Retryable(db, now)
                       /\ req'[w].crowd = backlog_in_window(db, now)
                  ELSE Cardinality(req'[w].events) + req'[w].crowd = RetryBatch
       /\ (req[w] = Idle /\ req'[w] = Idle /\ retry_failed_webhook_events_load(w))
            => /\ Retryable(db, now) = {} /\ backlog_in_window(db, now) = 0
               /\ resp'.code = 0
       /\ (req[w].pc = "loop" /\ retry_failed_webhook_events(w))
            => /\ db' = db
               /\ req'[w].events = req[w].events
       /\ \A e \in EventIds :
            /\ retry_failed_webhook_events_lookup(w, e)
                 => /\ e \in req[w].events /\ db.events[e].status = "failed"
                    /\ req'[w].events = req[w].events \ {e}
                    /\ db' = db
            /\ (req[w].event = e /\ retry_failed_webhook_events(w))
                 => /\ db.events[e].status = "failed"
                    /\ req'[w].events \subseteq req[w].events
                    /\ \A other \in EventIds \ {e} : db'.events[other] = db.events[other]
       /\ retry_failed_webhook_events_mark(w)
            => \A other \in EventIds \ {req[w].event} :
                 db'.events[other] = db.events[other]]_vars

\* C24 witness: more than 50 failed events were within the window; a run of
\* the job took 50 of them, re-attempted and processed the failure event
\* among them, and left out the success event, failed within the window
\* too, whose dispatch would succeed by now.
C24_Witness ==
  /\ resp.op = "retry_failed_webhook_events" /\ resp.code = 1
  /\ backlog_in_window(db, now) = MaxBacklog
  /\ db.events["e2"].status = "processed"
  /\ db.events["e1"].status = "failed" /\ InRetryWindow(db, "e1", now)
  /\ HandlerSucceeds(db, "e1")

\* The payments that exist.
Payments(d) == {p \in PaymentIds : d.payment[p].status # "none"}

\* The subscriptions that exist.
Subscriptions(d) == {p \in PaymentIds : d.sub[p].status # "none"}

\* C25: a create_checkout_session answered 201 was asked for a plan on sale
\* and has created one Payment (pending, the plan's price, owned by the
\* caller) and one Subscription (pending, the plan's duration, placeholder
\* dates, one "created" history row) under the same key, every other row
\* left as it was; a request for a plan that is not on sale is answered 400
\* and creates nothing.
C25_CheckoutCreatesOnePair ==
  [][resp'.op = "create_checkout_session"
       => \A w \in Workers, session \in {"ok", "none", "raise"} :
            create_checkout_session(w, session)
              => LET u == req[w].snap.user
                     plan == PlanOf(req[w])
                     p == NextPaymentId(db)
                 IN
                 /\ ~plan.is_active => (db' = db /\ resp'.code = 400)
                 /\ resp'.code = 201
                      => /\ plan.is_active
                         /\ Payments(db') = Payments(db) \cup {p} /\ p \notin Payments(db)
                         /\ Subscriptions(db') = Subscriptions(db) \cup {p}
                         /\ p \notin Subscriptions(db)
                         /\ db'.payment[p].status = "pending"
                         /\ db'.payment[p].amount = plan.price
                         /\ db'.payment[p].user = u
                         /\ db'.payment[p].created_at = now
                         /\ db'.sub[p] = [status |-> "pending", start_date |-> now,
                                          end_date |-> now,
                                          duration_days |-> plan.duration_days,
                                          user |-> u]
                         /\ db'.hist[p] = <<"created">>
                         /\ user_subscription(db', u) = {p}
                         /\ \A q \in PaymentIds \ {p} : Rows(db', q) = Rows(db, q)
                         /\ db'.events = db.events /\ db'.pins = db.pins]_vars

\* C25 witness: the checkout of the second plan was answered 201; its
\* payment and subscription are the only ones.
C25_Witness ==
  /\ resp.op = "create_checkout_session" /\ resp.code = 201
  /\ Payments(db) = {"p1"} /\ Subscriptions(db) = {"p1"}
  /\ db.payment["p1"].status = "pending" /\ db.payment["p1"].amount = 2
  /\ db.sub["p1"].status = "pending" /\ db.sub["p1"].duration_days = 2

\* C26: no committed state holds a pending Payment with a pending
\* Subscription and no provider session.
C26_NoOrphanedCheckout ==
  \A p \in PaymentIds :
    ~(/\ db.payment[p].status = "pending" /\ ~db.payment[p].session
      /\ db.sub[p].status = "pending")

\* C27: when the handlers run one after another, a retry_payment of a
\* payment that is not failed or not the caller's is answered 404 and
\* changes nothing; the gateway's new session is stored on the same failed
\* row; with no session the answer is 400 and the payment stays failed;
\* either way the attempt is recorded and nothing else is written;
\* the final save moves the row from failed to processing, answers 200 and
\* touches no other row, and no Payment row is added.
C27_RetryOnlyFailed ==
  [][\A w \in Workers :
       /\ Starts("retry_payment")
            => \A u \in Users, p \in PaymentIds :
                 (/\ db.payment[p].status # "failed" \/ db.payment[p].user # u
                  /\ retry_payment_load(w, u, p))
                   => (db' = db /\ req'[w] = Idle /\ resp'.code = 404)
       /\ retry_payment_session(w, FALSE)
            => /\ db' = [db EXCEPT !.attempts[req[w].pid] = @ + 1]
               /\ resp'.code = 400
               /\ db.payment[req[w].pid].status = "failed"
       /\ retry_payment_session(w, TRUE)
            => /\ db.payment[req[w].pid].status = "failed"
               /\ db' = [db EXCEPT !.payment[req[w].pid].session = TRUE,
                                   !.attempts[req[w].pid] = @ + 1]
       /\ retry_payment(w)
            => /\ db.payment[req[w].pid].status = "failed"
               /\ db.payment[req[w].pid].session
               /\ db' = [db EXCEPT !.payment[req[w].pid].status = "processing"]
               /\ resp'.code = 200]_vars

\* C27 witness: a failed payment was retried; the same row is processing
\* with a provider session and no second payment exists.
C27_Witness ==
  /\ resp.op = "retry_payment" /\ resp.code = 200
  /\ Payments(db) = {"p1"}
  /\ db.payment["p1"].status = "processing" /\ db.payment["p1"].session
  /\ db.sub["p1"].status = "cancelled"

\* C28: a pin request for a post that is not the user's own or not
\* published, or by a user without an active subscription, is answered 400
\* at once and leaves the ledger as it is, through PinPostSerializer and
\* through PinnedPostSerializer alike.
C28_PinRefused ==
  [][\A w \in Workers, u \in Users, post \in Posts :
       (/\ \/ post.author # u
           \/ post.status # "published"
           \/ ActiveSubscriptions(db, u) = {}
        /\ Starts("pin_post") \/ Starts("pinned_post_create"))
         => /\ pin_post(w, u, post) => (resp'.code = 400 /\ db' = db)
            /\ pinned_post_create(w, u, post)
                 => (resp'.code = 400 /\ db' = db /\ req'[w] = Idle)]_vars

\* C29: when a user with an active subscription and a pinned post pins
\* another post of their own that is published, by either creation path,
\* the user's only PinnedPost afterwards is the new one and the history of
\* the subscription has gained "post_unpinned" and then "post_pinned".
C29_PinReplaces ==
  [][\A w \in Workers, u \in Users, post \in Posts :
       (/\ post.author = u /\ post.status = "published"
        /\ ActiveSubscriptions(db, u) # {}
        /\ pinned_post(db, u) # {}
        /\ \A row \in pinned_post(db, u) : row.post # post.id
        /\ started' = started + 1
        /\ resp'.op \in {"pin_post", "pinned_post_create"}
        /\ pin_post(w, u, post) \/ pinned_post_create(w, u, post))
         => /\ Cardinality(pinned_post(db', u)) = 1
            /\ \A row \in pinned_post(db', u) : row.post = post.id
            /\ db'.hist[subscription_of(db, u)] =
                 db.hist[subscription_of(db, u)] \o <<"post_unpinned", "post_pinned">>]_vars

\* C30: in every interleaving, a run of cleanup_old_payments deletes only
\* payments that are failed or cancelled and were created more than 90
\* days ago: a payment that is pending, processing or succeeded, or not
\* older than 90 days, when the job deletes, keeps all its rows, and the
\* run changes no subscription, history, event or pinned post.
C30_CleanupOnlyOldDeadPayments ==
  [][\A w \in Workers :
       (resp'.op = "cleanup_old_payments"
          /\ (cleanup_old_payments_load(w) \/ cleanup_old_payments(w)))
         => /\ \A p \in PaymentIds :
                 \/ /\ db.payment[p].status \in {"failed", "cancelled"}
                    /\ now - db.payment[p].created_at > PaymentRetention
                 \/ Rows(db', p) = Rows(db, p) /\ db'.attempts[p] = db.attempts[p]
            /\ db'.sub = db.sub /\ db'.hist = db.hist
            /\ db'.events = db.events /\ db'.pins = db.pins]_vars

\* C31: when the handlers run one after another, a cancel_payment goes on
\* only for a pending payment of the caller; for a payment that is missing,
\* another user's or in any other status it answers 404 or 400 and changes
\* nothing.  Its save moves the payment from pending to cancelled and
\* touches no other row, and its last step answers 200 and leaves the
\* linked subscription cancelled and everything else as it was.
C31_CancelOnlyPending ==
  [][\A w \in Workers :
       /\ Starts("cancel_payment")
            => \A u \in Users, p \in PaymentIds :
                 cancel_payment_load(w, u, p)
                   => /\ db' = db
                      /\ IF db.payment[p].status = "pending" /\ db.payment[p].user = u
                         THEN req'[w].op = "cancel_payment" /\ req'[w].pid = p
                         ELSE req'[w] = Idle /\ resp'.code \in {400, 404}
       /\ cancel_payment_save(w)
            => /\ db.payment[req[w].pid].status = "pending"
               /\ db' = [db EXCEPT !.payment[req[w].pid].status = "cancelled"]
       /\ cancel_payment_subscription(w)
            => /\ db' = db
               /\ db.payment[req[w].pid].status = "cancelled"
               /\ IF db.sub[req[w].pid].status = "none"
                  THEN resp'.code = 200
                  ELSE req'[w].sub = db.sub[req[w].pid]
       /\ cancel_payment(w)
            => /\ resp'.code = 200
               /\ db.payment[req[w].pid].status = "cancelled"
               /\ db.sub[req[w].pid].status # "none"
               /\ db' = [db EXCEPT !.sub[req[w].pid].status = "cancelled"]]_vars

\* C31 witness: a cancel_payment was answered 200 and left the payment and
\* its subscription cancelled, with no activation in the history.
C31_Witness ==
  /\ resp.op = "cancel_payment" /\ resp.code = 200
  /\ db.payment["p1"].status = "cancelled"
  /\ db.sub["p1"].status = "cancelled"
  /\ Activations(db, "p1") = 0

\* The edges of the subscription lifecycle (specification 3).
SubscriptionEdges ==
  {<<"pending", "active">>, <<"pending", "cancelled">>,
   <<"active", "cancelled">>, <<"active", "expired">>}

\* C32: every change of the status of a subscription follows an edge of
\* the lifecycle pending -> active, pending -> cancelled, active ->
\* cancelled, active -> expired; in particular a cancelled or expired
\* subscription never becomes active again, also not when its failed
\* payment is retried and then succeeds.
C32_SubscriptionFollowsLifecycle ==
  [][\A p \in PaymentIds :
       (/\ db.sub[p].status # "none"
        /\ db'.sub[p].status # db.sub[p].status)
         => <<db.sub[p].status, db'.sub[p].status>> \in SubscriptionEdges]_vars

\* C33: when the handlers run one after another, a refund accepted by the
\* provider for a succeeded payment with an active subscription leaves the
\* subscription cancelled and the user without a PinnedPost if the
\* succeeded refunds of the payment now add up to its amount, by one full
\* refund or by several partial ones, and leaves every subscription and
\* PinnedPost as it was if part of the amount remains unrefunded.
C33_RefundedInFullCancels ==
  [][\A w \in Workers :
       LET p == req[w].pid
       IN (/\ create_refund(w, TRUE)
           /\ db.payment[p].status = "succeeded"
           /\ db.sub[p].status = "active")
          => IF refunded_amount(db', p) = db'.payment[p].amount
             THEN /\ db'.sub[p].status = "cancelled"
                  /\ pinned_post(db', db.sub[p].user) = {}
             ELSE db'.sub = db.sub /\ db'.pins = db.pins]_vars

\* C34: a payment_status, a
\* cancel_payment or a retry_payment that names a payment of another user
\* is answered 404 at its lookup, holds no worker afterwards and leaves
\* every row of the ledger, the owner's payment and subscription among
\* them, as it was.
C34_ForeignPaymentNotFound ==
  [][\A w \in Workers :
       (Starts("payment_status") \/ Starts("cancel_payment") \/ Starts("retry_payment"))
         => \A u \in Users, p \in PaymentIds :
              (/\ db.payment[p].status # "none"
               /\ db.payment[p].user # u
               /\ \/ payment_status_load(w, u, p)
                  \/ cancel_payment_load(w, u, p)
                  \/ retry_payment_load(w, u, p))
              => (db' = db /\ req'[w] = Idle /\ resp'.code = 404)]_vars

\* C34 witness: user u2 asked to cancel the pending payment of u1 and was
\* answered 404; the payment and its subscription are pending as before.
C34_Witness ==
  /\ resp.op = "cancel_payment" /\ resp.code = 404 /\ resp.note = "not_owner"
  /\ db.payment["p1"].user = "u1" /\ db.payment["p1"].status = "pending"
  /\ db.sub["p1"].status = "pending"

\* C35: the chain of hooks started by a save that moves a payment from
\* pending or processing to succeeded or failed ends: the save with its
\* hooks and the service the post-save hook calls returns a ledger with
\* the new status, and in the ledger the step leaves, the pre-save hook of
\* any further save of the row records the status already written, the
\* post-save hook with that previous status calls no service, and saving
\* the row again returns the ledger as it is.
C35_SaveHookChainEnds ==
  [][\A p \in PaymentIds, s \in {"succeeded", "failed"} :
       (/\ db.payment[p].status \in {"pending", "processing"}
        /\ db'.payment[p].status = s)
         => LET inst == [db.payment[p] EXCEPT !.status = s]
                d1 == payment_save(db, p, inst, FALSE, now)
            IN /\ d1.payment[p] = inst
               /\ payment_save(d1, p, inst, FALSE, now) = d1
               /\ payment_pre_save(db', p, FALSE) = s
               /\ payment_post_save(db', p, FALSE, payment_pre_save(db', p, FALSE), now) = db'
               /\ payment_save(db', p, db'.payment[p], FALSE, now) = db']_vars

\* C35 witness: after a failure event was processed, a success event has
\* taken a payment through the chain to succeeded; the pre-save hook of a
\* further save would record succeeded.
C35_Witness ==
  \E p \in PaymentIds :
    /\ resp.note = "success_applied"
    /\ db.payment[p].status = "succeeded"
    /\ db.events["e2"].status = "processed"
    /\ payment_pre_save(db, p, FALSE) = "succeeded"

\* C10: the succeeded refunds of a payment never add up to more than the
\* payment's amount.
C10_RefundsWithinAmount ==
  \A p \in PaymentIds :
    db.payment[p].status # "none" => refunded_amount(db, p) <= db.payment[p].amount

====
